---- MODULE Spec2Model ----
(***************************************************************************)
(* Authentication and session lifecycle of JTracker-backend.               *)
(*                                                                         *)
(* Spec        : the auth service (register, login, getCurrentUser,        *)
(*               logout) with the in-memory token blacklist, the user      *)
(*               table and the HTTP status mapping of the controller.      *)
(* SpecRefresh : refresh-token rotation over the refresh-token table.      *)
(***************************************************************************)
EXTENDS Integers, Sequences, FiniteSets, TLC

VARIABLES
    now,            \* Date.now(), in milliseconds
    jwtSecret,      \* process.env.JWT_SECRET ("unset" when not configured)
    users,          \* rows of table "User"
    nextId,         \* next value of the User.id sequence
    blacklist,      \* tokenBlacklist.js: Map token -> expiration timestamp (ms)
    procs,          \* in-flight requests of the auth service, one record per slot
    last,           \* history: the request that completed last, with its outcome
    issued,         \* history: access tokens returned by register/login
    calls,          \* history: the generateToken calls made directly (SpecToken)
    loggedOut,      \* history: tokens for which logout has returned success
    refreshTokens,  \* rows of table "RefreshToken"
    rprocs,         \* in-flight refresh requests
    nextRaw,        \* next opaque refresh-token value to be generated
    rotations,      \* history: raw token -> number of refreshes it was accepted for
    lineage,        \* history: <<old hash, new hash>> of every successor row created
    applications,   \* rows of table "JobApplication"
    nextAppId       \* next value of the autoincrement key of "JobApplication"

vars == <<now, jwtSecret, users, nextId, blacklist, procs, last, issued, calls,
          loggedOut,
          refreshTokens, rprocs, nextRaw, rotations, lineage,
          applications, nextAppId>>

authVars == <<users, nextId, blacklist, procs, last, issued, calls, loggedOut>>
refreshVars == <<refreshTokens, rprocs, nextRaw, rotations, lineage>>
appVars == <<applications, nextAppId>>

(***************************************************************************)
(* Bounds of the model.                                                    *)
(***************************************************************************)
\* the clock stops advancing at MaxNow milliseconds
MaxNow == 1500
\* the clock advances in steps of TickMs milliseconds
TickMs == 500
\* access-token lifetime in seconds (JWT_EXPIRES_IN; 3600 when unset)
maxAge == 1
\* at most MaxIssued distinct access tokens are handed out
MaxIssued == 2
\* at most MaxRaw refresh tokens are generated
MaxRaw == 3
\* refresh-token lifetime in seconds (REFRESH_TOKEN_DAYS days in the code)
RefreshTtl == 1

Procs == {"p1", "p2"}

(***************************************************************************)
(* JavaScript values.  A string is its sequence of characters; a signed    *)
(* JWT is a string whose content is kept structured (payload and signing   *)
(* secret) with a flag for surrounding whitespace.                         *)
(***************************************************************************)
Undefined == [t |-> "undefined"]
Null == [t |-> "null"]
NumberValue == [t |-> "number"]
Str(cs) == [t |-> "string", chars |-> cs]
IsString(v) == v.t = "string"
IsJwt(v) == IsString(v) /\ "jwt" \in DOMAIN v

Whitespace == {" "}

RECURSIVE TrimLeft(_)
TrimLeft(cs) ==
    IF cs # <<>> /\ Head(cs) \in Whitespace THEN TrimLeft(Tail(cs)) ELSE cs

RECURSIVE TrimRight(_)
TrimRight(cs) ==
    IF cs # <<>> /\ cs[Len(cs)] \in Whitespace
    THEN TrimRight(SubSeq(cs, 1, Len(cs) - 1))
    ELSE cs

\* String.prototype.trim / z.string().trim()
Trim(v) ==
    IF IsJwt(v) THEN [v EXCEPT !.ws = FALSE]
    ELSE [v EXCEPT !.chars = TrimRight(TrimLeft(v.chars))]

\* String.prototype.length (a JWT is never empty)
Length(v) == IF IsJwt(v) THEN 100 + (IF v.ws THEN 2 ELSE 0) ELSE Len(v.chars)

HasChar(v, set) == ~IsJwt(v) /\ \E i \in 1..Len(v.chars) : v.chars[i] \in set

Ok(val) == [ok |-> TRUE, val |-> val]
Err(msg) == [ok |-> FALSE, err |-> msg]

(***************************************************************************)
(* validations: registerSchema, loginSchema, tokenSchema                   *)
(***************************************************************************)
UpperCase == {"A", "B", "C", "D", "E", "F", "G", "H", "I", "J", "K", "L", "M",
              "N", "O", "P", "Q", "R", "S", "T", "U", "V", "W", "X", "Y", "Z"}

Symbols == {"!", "@", "#", "$", "%", "^", "&", "*", "(", ")", "_", "+", "-",
            "=", "[", "]", "{", "}", ";", "'", ":", "\"", "\\", "|", ",", ".",
            "<", ">", "/", "?"}

EmailMaxLen == 254
NameMaxLen == 200
PasswordMinLen == 8
PasswordMaxLen == 15
LoginPasswordMaxLen == 1000

Positions(cs, c) == {i \in 1..Len(cs) : cs[i] = c}

Max(S) == CHOOSE x \in S : \A y \in S : y <= x

\* z.string().email(): one "@", a non-empty local part, a dotted domain whose
\* last label has at least two characters, and no whitespace
IsEmail(cs) ==
    /\ Cardinality(Positions(cs, "@")) = 1
    /\ Positions(cs, " ") = {}
    /\ LET at == CHOOSE i \in Positions(cs, "@") : TRUE
           dots == {i \in Positions(cs, ".") : i > at}
       IN  /\ at > 1
           /\ cs[1] # "."
           /\ cs[at - 1] # "."
           /\ dots # {}
           /\ \A i \in dots : i > at + 1 /\ cs[i - 1] # "."
           /\ Len(cs) - Max(dots) >= 2

\* the first issue zod reports for registerSchema.email
registerEmailIssue(v) ==
    IF v = Undefined THEN "Email is required"
    ELSE IF ~IsString(v) THEN "Email must be a string"
    ELSE LET e == Trim(v) IN
         IF Length(e) < 1 THEN "Email must be a non-empty string"
         ELSE IF Length(e) > EmailMaxLen THEN "Email must be at most 254 characters long"
         ELSE IF ~IsEmail(e.chars) THEN "Email must be a valid email address"
         ELSE "none"

\* registerSchema.password with the two regex checks in the other order
registerPasswordIssue_SymbolFirst(v) ==
    IF v = Undefined THEN "Password is required"
    ELSE IF ~IsString(v) THEN "Password must be a string"
    ELSE IF Length(v) < PasswordMinLen THEN "Password must be at least 8 characters long"
    ELSE IF Length(v) > PasswordMaxLen THEN "Password must be at most 15 characters long"
    ELSE IF ~HasChar(v, Symbols) THEN "Password must contain at least one symbol"
    ELSE IF ~HasChar(v, UpperCase) THEN "Password must contain at least one capital letter"
    ELSE "none"

\* the first issue zod reports for registerSchema.password
registerPasswordIssue(v) ==
    IF v = Undefined THEN "Password is required"
    ELSE IF ~IsString(v) THEN "Password must be a string"
    ELSE IF Length(v) < PasswordMinLen THEN "Password must be at least 8 characters long"
    ELSE IF Length(v) > PasswordMaxLen THEN "Password must be at most 15 characters long"
    ELSE IF ~HasChar(v, UpperCase) THEN "Password must contain at least one capital letter"
    ELSE IF ~HasChar(v, Symbols) THEN "Password must contain at least one symbol"
    ELSE "none"

\* the first issue zod reports for registerSchema.name
registerNameIssue(v) ==
    IF v = Undefined THEN "Name is required"
    ELSE IF ~IsString(v) THEN "Name must be a string"
    ELSE LET n == Trim(v) IN
         IF Length(n) < 1 THEN "Name must be a non-empty string"
         ELSE IF Length(n) > NameMaxLen THEN "Name must be at most 200 characters long"
         ELSE "none"

\* parseWithErrorHandling(registerSchema, data): the first issue in field order
\* becomes the Error message, otherwise the parsed (trimmed) data
registerSchema(data) ==
    IF registerEmailIssue(data.email) # "none" THEN Err(registerEmailIssue(data.email))
    ELSE IF registerPasswordIssue(data.password) # "none"
         THEN Err(registerPasswordIssue(data.password))
    ELSE IF registerNameIssue(data.name) # "none" THEN Err(registerNameIssue(data.name))
    ELSE Ok([email |-> Trim(data.email), password |-> data.password,
             name |-> Trim(data.name)])

\* loginSchema.parse(data): any issue is reported as 'Invalid credentials'
loginSchema(data) ==
    IF \/ ~IsString(data.email)
       \/ Length(Trim(data.email)) < 1
       \/ Length(Trim(data.email)) > EmailMaxLen
       \/ ~IsString(data.password)
       \/ Length(data.password) < 1
       \/ Length(data.password) > LoginPasswordMaxLen
    THEN Err("Invalid credentials")
    ELSE Ok([email |-> Trim(data.email), password |-> data.password])

\* tokenSchema.parse(token) with the message rewriting of getCurrentUser/logout
tokenSchema(token) ==
    IF ~IsString(token) THEN Err("Token is required")
    ELSE IF Length(Trim(token)) < 1 THEN Err("Token must be a non-empty string")
    ELSE Ok(Trim(token))

(***************************************************************************)
(* utils: hashPassword, comparePassword, generateToken, verifyToken        *)
(***************************************************************************)
dummyHash == [dummy |-> TRUE]

\* bcrypt.hash: the digest is opaque; it remembers the characters it was made of
bcryptHash(password) == [bcrypt |-> password.chars]

\* bcrypt.compare: false for a value that is no bcrypt digest
bcryptCompare(password, hash) ==
    "bcrypt" \in DOMAIN hash /\ hash.bcrypt = password.chars

Falsy(v) == v \in {Undefined, Null} \/ (IsString(v) /\ Length(v) = 0)

hashPassword(password) ==
    IF Falsy(password) THEN Err("Password is required")
    ELSE IF ~IsString(password) THEN Err("Password must be a string")
    ELSE IF Length(password) < PasswordMinLen
         THEN Err("Password must be at least 8 characters long")
    ELSE IF Length(password) > PasswordMaxLen
         THEN Err("Password must be at most 15 characters long")
    ELSE IF ~HasChar(password, UpperCase)
         THEN Err("Password must contain at least one capital letter")
    ELSE IF ~HasChar(password, Symbols)
         THEN Err("Password must contain at least one symbol")
    ELSE Ok(bcryptHash(password))

comparePassword(password, hash) ==
    IF ~IsString(password) \/ Length(Trim(password)) = 0 THEN FALSE
    ELSE bcryptCompare(password, hash)

Seconds(ms) == ms \div 1000

\* jwt.sign(payload, secret, {expiresIn}): iat and exp are whole seconds
jwtSign(payload, secret, expiresIn, clock) ==
    [t |-> "string", ws |-> FALSE,
     jwt |-> [payload |-> payload @@ [iat |-> Seconds(clock),
                                      exp |-> Seconds(clock) + expiresIn],
              secret |-> secret]]

\* the default second argument of generateToken: options = {}
NoOptions == << >>

\* a value that is an object and no array (typeof 'object', not null)
IsObject(v) == "t" \notin DOMAIN v

\* Object.keys(v) of a truthy value
ObjectKeys(v) ==
    IF IsObject(v) THEN DOMAIN v
    ELSE IF v.t = "array" THEN 1..Len(v.items)
    ELSE IF v.t = "string" THEN 1..Len(v.chars)
    ELSE {}

\* options.expiresIn || maxAge
ExpiresIn(options) ==
    IF "expiresIn" \in DOMAIN options /\ options.expiresIn # 0
    THEN options.expiresIn
    ELSE maxAge

\* generateToken looking at the payload before the secret
generateToken_PayloadFirst(payload, options, secret, clock) ==
    IF (~IsObject(payload) /\ Falsy(payload)) \/ ObjectKeys(payload) = {}
    THEN Err("Payload cannot be empty, null or undefined")
    ELSE IF ~IsObject(payload) THEN Err("Payload must be a non-array object")
    ELSE IF secret = "unset" THEN Err("JWT_SECRET is not configured")
    ELSE Ok(jwtSign(payload, secret, ExpiresIn(options), clock))

\* generateToken signing every token with the default lifetime
generateToken_DefaultLifetime(payload, options, secret, clock) ==
    IF secret = "unset" THEN Err("JWT_SECRET is not configured")
    ELSE IF (~IsObject(payload) /\ Falsy(payload)) \/ ObjectKeys(payload) = {}
         THEN Err("Payload cannot be empty, null or undefined")
    ELSE IF ~IsObject(payload) THEN Err("Payload must be a non-array object")
    ELSE Ok(jwtSign(payload, secret, maxAge, clock))

generateToken(payload, options, secret, clock) ==
    IF secret = "unset" THEN Err("JWT_SECRET is not configured")
    ELSE IF (~IsObject(payload) /\ Falsy(payload)) \/ ObjectKeys(payload) = {}
         THEN Err("Payload cannot be empty, null or undefined")
    ELSE IF ~IsObject(payload) THEN Err("Payload must be a non-array object")
    ELSE IF "exp" \in DOMAIN payload
         THEN Err("Bad options.expiresIn option the payload already has an exp property")
    ELSE Ok(jwtSign(payload, secret, ExpiresIn(options), clock))

\* an exception that leaves verifyToken
Thrown(name) == [thrown |-> name]

\* verifyToken letting the TokenExpiredError of jwt.verify escape
verifyToken_ExpiredThrows(token, secret, clock) ==
    IF Falsy(token) \/ ~IsString(token) THEN Thrown("Token must be a non-empty string")
    ELSE IF ~IsJwt(token) \/ token.ws THEN Null
    ELSE IF token.jwt.secret # secret THEN Null
    ELSE IF "nbf" \in DOMAIN token.jwt.payload /\ Seconds(clock) < token.jwt.payload.nbf
         THEN Thrown("NotBeforeError")
    ELSE IF "exp" \in DOMAIN token.jwt.payload /\ Seconds(clock) >= token.jwt.payload.exp
         THEN Thrown("TokenExpiredError")
    ELSE token.jwt.payload

\* verifyToken: the throw for a value that is no non-empty string; then
\* jwt.verify, whose JsonWebTokenError (malformed string, which a token with
\* whitespace around it is, since verifyToken does not trim; signature made with
\* another secret) and TokenExpiredError become null and whose other errors
\* (NotBeforeError) are re-thrown; otherwise the payload
verifyToken(token, secret, clock) ==
    IF Falsy(token) \/ ~IsString(token) THEN Thrown("Token must be a non-empty string")
    ELSE IF ~IsJwt(token) \/ token.ws THEN Null
    ELSE IF token.jwt.secret # secret THEN Null
    ELSE IF "nbf" \in DOMAIN token.jwt.payload /\ Seconds(clock) < token.jwt.payload.nbf
         THEN Thrown("NotBeforeError")
    ELSE IF "exp" \in DOMAIN token.jwt.payload /\ Seconds(clock) >= token.jwt.payload.exp
         THEN Null
    ELSE token.jwt.payload

(***************************************************************************)
(* tokenBlacklist: the in-memory Map token -> expiration timestamp         *)
(***************************************************************************)
\* addToBlacklist sweeps when the size of the Map is a multiple of SweepEvery
\* (100 in the code)
SweepEvery == 2

MapSet(m, k, v) == [x \in DOMAIN m \cup {k} |-> IF x = k THEN v ELSE m[x]]
MapDelete(m, ks) == [x \in DOMAIN m \ ks |-> m[x]]

\* cleanupExpiredTokens deleting the entries that expire at this instant too
cleanupExpiredTokens_DropsLast(bl, clock) ==
    MapDelete(bl, {t \in DOMAIN bl : clock >= bl[t]})

cleanupExpiredTokens(bl, clock) ==
    MapDelete(bl, {t \in DOMAIN bl : clock > bl[t]})

\* addToBlacklist storing now + expiresIn, the seconds taken for milliseconds
addToBlacklist_SecondsAsMs(bl, token, expiresIn, clock) ==
    MapSet(bl, token, clock + expiresIn)

addToBlacklist(bl, token, expiresIn, clock) ==
    LET set == MapSet(bl, token, clock + expiresIn * 1000)
        size == Cardinality(DOMAIN set)
    IN  IF size > 0 /\ size % SweepEvery = 0
        THEN cleanupExpiredTokens(set, clock)
        ELSE set

\* isBlacklisted leaving the stale entry in the Map
isBlacklisted_NoEviction(bl, token, clock) ==
    IF token \notin DOMAIN bl \/ bl[token] = 0 \/ clock > bl[token]
    THEN [revoked |-> FALSE, blacklist |-> bl]
    ELSE [revoked |-> TRUE, blacklist |-> bl]

\* isBlacklisted returns a boolean and may delete the entry it looked up
isBlacklisted(bl, token, clock) ==
    IF token \notin DOMAIN bl \/ bl[token] = 0
    THEN [revoked |-> FALSE, blacklist |-> bl]
    ELSE IF clock > bl[token]
    THEN [revoked |-> FALSE, blacklist |-> MapDelete(bl, {token})]
    ELSE [revoked |-> TRUE, blacklist |-> bl]

(***************************************************************************)
(* model: the User table behind prisma (email carries a unique index)      *)
(***************************************************************************)
\* the message of the PrismaClientKnownRequestError with code P2002
P2002 == "Invalid prisma.user.create() invocation: Unique constraint failed on the fields: (email)"

\* the select clause of createUser / findUserByEmail / findUserById
SelectPublic(row) == [id |-> row.id, email |-> row.email, name |-> row.name]

FindUnique(us, field, value) ==
    IF \E u \in us : u[field] = value
    THEN CHOOSE u \in us : u[field] = value
    ELSE Null

findUserByEmail(us, email) ==
    LET row == FindUnique(us, "email", email)
    IN  IF row = Null THEN Null ELSE SelectPublic(row)

findUserById(us, id) ==
    LET row == FindUnique(us, "id", id)
    IN  IF row = Null THEN Null ELSE SelectPublic(row)

findUserByEmailWithPassword(us, email) == FindUnique(us, "email", email)

\* prisma.user.create: the row and the selected columns, or the P2002 fault
createUser(us, id, data) ==
    IF \E u \in us : u.email = data.email
    THEN Err(P2002)
    ELSE LET row == [id |-> id, email |-> data.email, password |-> data.passwordHash,
                     name |-> data.name]
         IN  [ok |-> TRUE, val |-> SelectPublic(row), row |-> row]

(***************************************************************************)
(* controller: mapping of service outcomes to HTTP responses               *)
(***************************************************************************)
RegisterMessages ==
    {"Email is required", "Email must be a string", "Email must be a non-empty string",
     "Email must be at most 254 characters long", "Email must be a valid email address",
     "Password is required", "Password must be a string",
     "Password must be at least 8 characters long",
     "Password must be at most 15 characters long",
     "Password must contain at least one capital letter",
     "Password must contain at least one symbol",
     "Name is required", "Name must be a string", "Name must be a non-empty string",
     "Name must be at most 200 characters long",
     "Registration failed", "JWT_SECRET is not configured", P2002}

\* String.prototype.includes over the messages register can throw: for every
\* substring the controller looks for, the messages that contain it
Containing(sub) ==
    CASE sub = "required" ->
           {"Email is required", "Password is required", "Name is required"}
      [] sub = "must be" ->
           {"Email must be a string", "Email must be a non-empty string",
            "Email must be at most 254 characters long",
            "Email must be a valid email address", "Password must be a string",
            "Password must be at least 8 characters long",
            "Password must be at most 15 characters long",
            "Name must be a string", "Name must be a non-empty string",
            "Name must be at most 200 characters long"}
      [] sub = "must contain" ->
           {"Password must contain at least one capital letter",
            "Password must contain at least one symbol"}
      [] sub = "valid" -> {"Email must be a valid email address", P2002}
      [] sub = "Email must be" ->
           {"Email must be a string", "Email must be a non-empty string",
            "Email must be at most 254 characters long",
            "Email must be a valid email address"}
      [] sub = "password" -> {}
      [] sub = "email" -> {"Email must be a valid email address", P2002}
      [] sub = "name" -> {}
      [] sub = "Registration failed" -> {"Registration failed"}

Includes(message, sub) == message \in Containing(sub)

\* controller.register, catch branch: status code and error text
registerError(message, production) ==
    LET isInput == \/ Includes(message, "required")
                   \/ Includes(message, "must be")
                   \/ Includes(message, "must contain")
                   \/ Includes(message, "valid")
                   \/ Includes(message, "Email must be")
                   \/ Includes(message, "password")
                   \/ Includes(message, "email")
                   \/ Includes(message, "name")
        statusCode == IF isInput THEN 400
                      ELSE IF Includes(message, "Registration failed")
                           THEN (IF production THEN 400 ELSE 409)
                      ELSE 500
        generic == IF statusCode = 400 /\ (\/ Includes(message, "required")
                                           \/ Includes(message, "must be")
                                           \/ Includes(message, "must contain")
                                           \/ Includes(message, "valid")
                                           \/ Includes(message, "Email must be"))
                   THEN "Invalid input provided"
                   ELSE "Registration failed"
    IN  [status |-> statusCode, error |-> IF production THEN generic ELSE message]

\* controller.register: 201 with {user, token}, or the mapped failure
registerResponse(result, production) ==
    IF result.ok
    THEN [status |-> 201, user |-> result.val.user, token |-> result.val.token]
    ELSE registerError(result.err, production)

\* controller.login: 200 with {user, token}; every failure is the same 401
loginResponse(result) ==
    IF result.ok
    THEN [status |-> 200, user |-> result.val.user, token |-> result.val.token]
    ELSE [status |-> 401, error |-> "Invalid credentials"]

(***************************************************************************)
(* service: register, login, getCurrentUser, logout.  Each handler is      *)
(* split where it awaits the database; the code between two awaits runs    *)
(* without interruption on the event loop.                                 *)
(***************************************************************************)

\* register up to "await model.findUserByEmail": validation, then the lookup
registerLookup(data, us) ==
    LET validated == registerSchema(data)
    IN  IF ~validated.ok THEN validated
        ELSE Ok([validated |-> validated.val,
                 existingUser |-> findUserByEmail(us, validated.val.email)])

\* register relying on the unique index alone, without the existingUser check
register_NoConflictCheck(loc, us, id, secret, clock) ==
    LET passwordHash == hashPassword(loc.validated.password)
        created == createUser(us, id, [email |-> loc.validated.email,
                                       passwordHash |-> passwordHash.val,
                                       name |-> loc.validated.name])
        token == generateToken([userId |-> created.val.id, email |-> created.val.email], NoOptions,
                               secret, clock)
    IN  IF ~passwordHash.ok THEN [result |-> passwordHash, users |-> us]
        ELSE IF ~created.ok THEN [result |-> created, users |-> us]
        ELSE IF ~token.ok THEN [result |-> token, users |-> us \cup {created.row}]
        ELSE [result |-> Ok([user |-> created.val, token |-> token.val]),
              users |-> us \cup {created.row}]

\* register replacing the password of the account that already exists before
\* it rejects the request
register_OverwritesExisting(loc, us, id, secret, clock) ==
    LET passwordHash == hashPassword(loc.validated.password)
        created == createUser(us, id, [email |-> loc.validated.email,
                                       passwordHash |-> passwordHash.val,
                                       name |-> loc.validated.name])
        token == generateToken([userId |-> created.val.id, email |-> created.val.email],
                               NoOptions, secret, clock)
    IN  IF ~passwordHash.ok THEN [result |-> passwordHash, users |-> us]
        ELSE IF loc.existingUser # Null
             THEN [result |-> Err("Registration failed"),
                   users |-> {IF u.email = loc.validated.email
                              THEN [u EXCEPT !.password = passwordHash.val]
                              ELSE u : u \in us}]
        ELSE IF ~created.ok THEN [result |-> created, users |-> us]
        ELSE IF ~token.ok THEN [result |-> token, users |-> us \cup {created.row}]
        ELSE [result |-> Ok([user |-> created.val, token |-> token.val]),
              users |-> us \cup {created.row}]

\* register rejecting a duplicate email before it hashes the password
registerHash_SkipsExisting(loc) ==
    IF loc.existingUser # Null THEN [performed |-> FALSE, result |-> Ok(Null)]
    ELSE [performed |-> TRUE, result |-> hashPassword(loc.validated.password)]

\* the hash register awaits after the lookup, whatever the lookup returned
registerHash(loc) ==
    [performed |-> TRUE, result |-> hashPassword(loc.validated.password)]

\* register after the lookup: hash, conflict check, createUser, generateToken.
\* Returns the outcome and the rows of the table afterwards.
register(loc, us, id, secret, clock) ==
    LET passwordHash == registerHash(loc).result
        created == createUser(us, id, [email |-> loc.validated.email,
                                       passwordHash |-> passwordHash.val,
                                       name |-> loc.validated.name])
        token == generateToken([userId |-> created.val.id, email |-> created.val.email], NoOptions,
                               secret, clock)
    IN  IF ~passwordHash.ok THEN [result |-> passwordHash, users |-> us]
        ELSE IF loc.existingUser # Null
             THEN [result |-> Err("Registration failed"), users |-> us]
        ELSE IF ~created.ok THEN [result |-> created, users |-> us]
        ELSE IF ~token.ok THEN [result |-> token, users |-> us \cup {created.row}]
        ELSE [result |-> Ok([user |-> created.val, token |-> token.val]),
              users |-> us \cup {created.row}]

\* register issuing the token before it creates the user
registerSteps_IssuesBeforeCreate(loc, us, id) ==
    <<"validate", "findUserByEmail", "hashPassword", "generateToken", "createUser">>

\* the calls of one register request that passed validation, in the order
\* the code makes them: each is awaited (or returns) before the next starts,
\* and a throw ends the request
registerSteps(loc, us, id) ==
    LET passwordHash == registerHash(loc).result
        created == createUser(us, id, [email |-> loc.validated.email,
                                       passwordHash |-> passwordHash.val,
                                       name |-> loc.validated.name])
    IN  <<"validate", "findUserByEmail", "hashPassword">>
        \o (IF ~passwordHash.ok \/ loc.existingUser # Null THEN << >>
            ELSE <<"createUser">>
                 \o (IF ~created.ok THEN << >> ELSE <<"generateToken">>))

\* login up to "await model.findUserByEmailWithPassword"
loginLookup(data, us) ==
    LET validated == loginSchema(data)
    IN  IF ~validated.ok THEN validated
        ELSE Ok([validated |-> validated.val,
                 user |-> findUserByEmailWithPassword(us, validated.val.email)])

\* the row returned as it is, password column included
WithoutPassword_Identity(row) == row

\* the row without its password column
WithoutPassword(row) == [f \in DOMAIN row \ {"password"} |-> row[f]]

\* login telling an unknown email from a wrong password
login_DistinctErrors(loc, secret, clock) ==
    LET user == loc.user
        token == generateToken([userId |-> user.id, email |-> user.email], NoOptions, secret, clock)
    IN  IF user = Null THEN Err("User not found")
        ELSE IF ~comparePassword(loc.validated.password, user.password)
             THEN Err("Invalid credentials")
        ELSE IF ~token.ok THEN token
        ELSE Ok([user |-> WithoutPassword(user), token |-> token.val])

\* login returning early, without a comparison, when there is no user
loginCompare_SkipsUnknown(loc) ==
    IF loc.user = Null THEN [performed |-> FALSE, hash |-> Null, valid |-> FALSE]
    ELSE [performed |-> TRUE, hash |-> loc.user.password,
          valid |-> comparePassword(loc.validated.password, loc.user.password)]

\* the comparison login awaits after the lookup: against the stored hash, or
\* against dummyHash when there is no user
loginCompare(loc) ==
    LET hashToCompare == IF loc.user # Null THEN loc.user.password ELSE dummyHash
    IN  [performed |-> TRUE, hash |-> hashToCompare,
         valid |-> comparePassword(loc.validated.password, hashToCompare)]

\* login after the lookup: comparison (against dummyHash when there is no
\* user), the combined check, generateToken
login(loc, secret, clock) ==
    LET user == loc.user
        isPasswordValid == loginCompare(loc).valid
        token == generateToken([userId |-> user.id, email |-> user.email], NoOptions, secret, clock)
    IN  IF user = Null \/ ~isPasswordValid THEN Err("Invalid credentials")
        ELSE IF ~token.ok THEN token
        ELSE Ok([user |-> WithoutPassword(user), token |-> token.val])

\* the calls of one login request that passed validation, in the order the
\* code makes them
loginSteps(loc) ==
    <<"validate", "findUserByEmailWithPassword", "comparePassword">>
    \o (IF loc.user = Null \/ ~loginCompare(loc).valid THEN << >>
        ELSE <<"generateToken">>)

\* !decoded.userId
MissingUserId(decoded) == "userId" \notin DOMAIN decoded \/ decoded.userId = 0

\* getCurrentUser without the lookup in the blacklist
getCurrentUser_NoRevocationCheck(token, bl, secret, clock) ==
    LET validatedToken == tokenSchema(token)
        decoded == verifyToken(validatedToken.val, secret, clock)
    IN  IF ~validatedToken.ok THEN [outcome |-> validatedToken, blacklist |-> bl]
        ELSE IF decoded = Null
             THEN [outcome |-> Err("Invalid or expired token"), blacklist |-> bl]
        ELSE IF "userId" \notin DOMAIN decoded \/ decoded.userId = 0
             THEN [outcome |-> Err("Invalid token: missing userId"), blacklist |-> bl]
        ELSE [outcome |-> Ok(decoded), blacklist |-> bl]

\* getCurrentUser up to "await model.findUserById": the outcome so far (the
\* decoded claims when every check passed) and the blacklist afterwards
getCurrentUser(token, bl, secret, clock) ==
    LET validatedToken == tokenSchema(token)
        decoded == verifyToken(validatedToken.val, secret, clock)
        listed == isBlacklisted(bl, validatedToken.val, clock)
    IN  IF ~validatedToken.ok THEN [outcome |-> validatedToken, blacklist |-> bl]
        ELSE IF decoded = Null
             THEN [outcome |-> Err("Invalid or expired token"), blacklist |-> bl]
        ELSE IF listed.revoked
             THEN [outcome |-> Err("Invalid or expired token"),
                   blacklist |-> listed.blacklist]
        ELSE IF MissingUserId(decoded)
             THEN [outcome |-> Err("Invalid token: missing userId"),
                   blacklist |-> listed.blacklist]
        ELSE [outcome |-> Ok(decoded), blacklist |-> listed.blacklist]

\* getCurrentUser after the lookup of the user
getCurrentUserLoad(decoded, us) ==
    LET user == findUserById(us, decoded.userId)
    IN  IF user = Null THEN Err("User not found") ELSE Ok(user)

\* logout without the check of decoded.userId
logout_NoUserIdCheck(token, bl, secret, clock) ==
    LET validatedToken == tokenSchema(token)
        decoded == verifyToken(validatedToken.val, secret, clock)
        remaining == decoded.exp - Seconds(clock)
    IN  IF ~validatedToken.ok THEN [outcome |-> validatedToken, blacklist |-> bl]
        ELSE IF decoded = Null
             THEN [outcome |-> Err("Invalid or expired token"), blacklist |-> bl]
        ELSE [outcome |-> Ok([message |-> "Logout successful"]),
              blacklist |-> MapSet(bl, validatedToken.val, clock + remaining * 1000)]

\* logout revoking the token before it looks at decoded.userId
logout_RevokesBeforeUserIdCheck(token, bl, secret, clock) ==
    LET validatedToken == tokenSchema(token)
        decoded == verifyToken(validatedToken.val, secret, clock)
        remaining == decoded.exp - Seconds(clock)
        revoked == addToBlacklist(bl, validatedToken.val, remaining, clock)
    IN  IF ~validatedToken.ok THEN [outcome |-> validatedToken, blacklist |-> bl]
        ELSE IF decoded = Null
             THEN [outcome |-> Err("Invalid or expired token"), blacklist |-> bl]
        ELSE IF MissingUserId(decoded)
             THEN [outcome |-> Err("Invalid token: missing userId"), blacklist |-> revoked]
        ELSE [outcome |-> Ok([message |-> "Logout successful"]), blacklist |-> revoked]

\* logout recording the full lifetime of the token instead of what remains
logout_FullLifetime(token, bl, secret, clock) ==
    LET validatedToken == tokenSchema(token)
        decoded == verifyToken(validatedToken.val, secret, clock)
        expiresIn == IF "exp" \in DOMAIN decoded /\ decoded.exp # 0
                     THEN decoded.exp - decoded.iat
                     ELSE 3600
    IN  IF ~validatedToken.ok THEN [outcome |-> validatedToken, blacklist |-> bl]
        ELSE IF decoded = Null
             THEN [outcome |-> Err("Invalid or expired token"), blacklist |-> bl]
        ELSE IF MissingUserId(decoded)
             THEN [outcome |-> Err("Invalid token: missing userId"), blacklist |-> bl]
        ELSE [outcome |-> Ok([message |-> "Logout successful"]),
              blacklist |-> addToBlacklist(bl, validatedToken.val, expiresIn, clock)]

\* logout (no await inside): the outcome and the blacklist afterwards
logout(token, bl, secret, clock) ==
    LET validatedToken == tokenSchema(token)
        decoded == verifyToken(validatedToken.val, secret, clock)
        nowSec == Seconds(clock)
        expiresIn == IF "exp" \in DOMAIN decoded /\ decoded.exp # 0
                     THEN (IF decoded.exp - nowSec > 0 THEN decoded.exp - nowSec ELSE 0)
                     ELSE 3600
    IN  IF ~validatedToken.ok THEN [outcome |-> validatedToken, blacklist |-> bl]
        ELSE IF decoded = Null
             THEN [outcome |-> Err("Invalid or expired token"), blacklist |-> bl]
        ELSE IF MissingUserId(decoded)
             THEN [outcome |-> Err("Invalid token: missing userId"), blacklist |-> bl]
        ELSE [outcome |-> Ok([message |-> "Logout successful"]),
              blacklist |-> addToBlacklist(bl, validatedToken.val, expiresIn, clock)]

(***************************************************************************)
(* Inputs of the requests                                                  *)
(***************************************************************************)
EmailA == Str(<<"a", "@", "b", ".", "c", "o">>)
EmailAPadded == Str(<<" ", "a", "@", "b", ".", "c", "o", " ">>)
EmailB == Str(<<"b", "@", "b", ".", "c", "o">>)
NotAnEmail == Str(<<"a", "b">>)
Blank == Str(<<" ">>)
Empty == Str(<<>>)

Password1 == Str(<<"A", "b", "c", "d", "e", "f", "g", "!">>)
Password2 == Str(<<"Z", "y", "x", "w", "v", "u", "t", "?">>)
ShortPassword == Str(<<"A", "b", "!">>)

Name1 == Str(<<"N">>)

RegisterInputs ==
    [email : {EmailA, EmailAPadded, EmailB, NotAnEmail, Undefined},
     password : {Password1, Password2, ShortPassword},
     name : {Name1, Undefined}]

LoginInputs ==
    [email : {EmailA, EmailAPadded, EmailB, Undefined, Null, NumberValue, Empty},
     password : {Password1, Password2, Blank, Undefined, Null, NumberValue, Empty}]

\* tokens no handler has issued: signed with another secret, signed by the
\* server's secret without a userId, or for a user id that has no row
ForeignSecretToken ==
    [t |-> "string", ws |-> FALSE,
     jwt |-> [payload |-> [userId |-> 1, email |-> EmailA, iat |-> 0, exp |-> maxAge],
              secret |-> "other"]]
NoUserIdToken == jwtSign([email |-> EmailA], "server", maxAge, 0)
UnknownUserToken == jwtSign([userId |-> 99, email |-> EmailB], "server", maxAge, 0)
Garbage == Str(<<"x", ".", "y">>)

Padded(token) == [token EXCEPT !.ws = TRUE]

TokenInputs ==
    issued \cup {Padded(t) : t \in issued}
           \cup {ForeignSecretToken, NoUserIdToken, UnknownUserToken, Garbage,
                 Undefined, Null, Empty, Blank}

(***************************************************************************)
(* Actions of Spec                                                         *)
(***************************************************************************)
Idle == [pc |-> "idle"]
None == [op |-> "none"]

\* the outcome of the request that completed last has been observed
Observed == last = None

\* a request takes the first free slot
Free(p) == Observed /\ procs[p] = Idle /\ (p = "p1" \/ procs["p1"] # Idle)

Pending == {p \in Procs : procs[p].pc \in {"register", "login"}}

\* a register or login may start while fewer than MaxIssued tokens are
\* issued or about to be
MayIssue == Cardinality(issued) + Cardinality(Pending) < MaxIssued

Tick ==
    /\ Observed
    /\ now + TickMs <= MaxNow
    /\ now' = now + TickMs
    /\ UNCHANGED <<jwtSecret, appVars, authVars, refreshVars>>

\* what holds of a register input in the state of the call: a row with the
\* trimmed email exists; the email came with surrounding whitespace
RegisterAt(data) ==
    [existed |-> IsString(data.email) /\ \E u \in users : u.email = Trim(data.email),
     padded |-> IsString(data.email) /\ Trim(data.email) # data.email]

RegisterCall(p, data) ==
    /\ Free(p)
    /\ MayIssue
    /\ LET r == registerLookup(data, users)
       IN  IF r.ok
           THEN /\ procs' = [procs EXCEPT ![p] =
                              [pc |-> "register", loc |-> r.val, at |-> RegisterAt(data)]]
                /\ UNCHANGED last
           ELSE /\ last' = [op |-> "register", by |-> p, result |-> r,
                            response |-> [production \in BOOLEAN |->
                                             registerResponse(r, production)],
                            validated |-> FALSE, at |-> RegisterAt(data),
                            raced |-> FALSE, created |-> FALSE,
                            steps |-> <<"validate">>]
                /\ UNCHANGED procs
    /\ UNCHANGED <<now, jwtSecret, appVars, users, nextId, blacklist, issued, calls,
                   loggedOut, refreshVars>>

RegisterReturn(p) ==
    /\ Observed
    /\ procs[p].pc = "register"
    /\ LET r == register(procs[p].loc, users, nextId, jwtSecret, now)
       IN  /\ users' = r.users
           /\ nextId' = IF r.users # users THEN nextId + 1 ELSE nextId
           /\ issued' = IF r.result.ok THEN issued \cup {r.result.val.token} ELSE issued
           /\ last' = [op |-> "register", by |-> p, result |-> r.result,
                       response |-> [production \in BOOLEAN |->
                                       registerResponse(r.result, production)],
                       validated |-> TRUE, at |-> procs[p].at,
                       raced |-> /\ ~procs[p].at.existed
                                 /\ \E u \in users : u.email = procs[p].loc.validated.email,
                       created |-> r.users # users,
                       hash |-> registerHash(procs[p].loc),
                       steps |-> registerSteps(procs[p].loc, users, nextId)]
    /\ procs' = [procs EXCEPT ![p] = Idle]
    /\ UNCHANGED <<now, jwtSecret, appVars, blacklist, calls, loggedOut, refreshVars>>

LoginCall(p, data) ==
    /\ Free(p)
    /\ MayIssue
    /\ LET r == loginLookup(data, users)
       IN  IF r.ok
           THEN /\ procs' = [procs EXCEPT ![p] = [pc |-> "login", loc |-> r.val]]
                /\ UNCHANGED last
           ELSE /\ last' = [op |-> "login", by |-> p, result |-> r,
                            response |-> loginResponse(r), branch |-> "validation",
                            steps |-> <<"validate">>]
                /\ UNCHANGED procs
    /\ UNCHANGED <<now, jwtSecret, appVars, users, nextId, blacklist, issued, calls,
                   loggedOut, refreshVars>>

LoginReturn(p) ==
    /\ Observed
    /\ procs[p].pc = "login"
    /\ LET r == login(procs[p].loc, jwtSecret, now)
       IN  /\ issued' = IF r.ok THEN issued \cup {r.val.token} ELSE issued
           /\ last' = [op |-> "login", by |-> p, result |-> r,
                       response |-> loginResponse(r),
                       branch |-> IF r.ok THEN "ok"
                                  ELSE IF procs[p].loc.user = Null THEN "no user"
                                  ELSE "wrong password",
                       compared |-> loginCompare(procs[p].loc),
                       steps |-> loginSteps(procs[p].loc)]
    /\ procs' = [procs EXCEPT ![p] = Idle]
    /\ UNCHANGED <<now, jwtSecret, appVars, users, nextId, blacklist, calls, loggedOut,
                   refreshVars>>

\* what the five checks of getCurrentUser would each say about a token, taken
\* one by one in the state of the call
Conditions(token) ==
    LET isString == IsString(token)
        trimmed == IF isString THEN Trim(token) ELSE token
        blank == ~isString \/ Length(trimmed) < 1
        valid == ~blank /\ IsJwt(trimmed) /\ trimmed.jwt.secret = jwtSecret
        claims == IF valid THEN trimmed.jwt.payload ELSE [exp |-> 0]
    IN  [blank |-> blank,
         unverified |-> ~blank /\ (~valid \/ ("exp" \in DOMAIN claims
                                               /\ claims.exp * 1000 <= now)),
         revoked |-> ~blank /\ trimmed \in DOMAIN blacklist /\ blacklist[trimmed] >= now,
         noUserId |-> valid /\ ("userId" \notin DOMAIN claims \/ claims.userId = 0),
         noUser |-> valid /\ "userId" \in DOMAIN claims
                          /\ ~\E u \in users : u.id = claims.userId,
         afterLogout |-> trimmed \in loggedOut,
         wasIssued |-> trimmed \in issued]

GetCurrentUserCall(p, token) ==
    /\ Free(p)
    /\ LET r == getCurrentUser(token, blacklist, jwtSecret, now)
       IN  /\ blacklist' = r.blacklist
           /\ IF r.outcome.ok
              THEN /\ procs' = [procs EXCEPT ![p] =
                          [pc |-> "getCurrentUser", decoded |-> r.outcome.val,
                           at |-> Conditions(token)]]
                   /\ UNCHANGED last
              ELSE /\ last' = [op |-> "getCurrentUser", by |-> p, result |-> r.outcome,
                               at |-> Conditions(token)]
                   /\ UNCHANGED procs
    /\ UNCHANGED <<now, jwtSecret, appVars, users, nextId, issued, calls, loggedOut,
                   refreshVars>>

GetCurrentUserReturn(p) ==
    /\ Observed
    /\ procs[p].pc = "getCurrentUser"
    /\ last' = [op |-> "getCurrentUser", by |-> p,
                result |-> getCurrentUserLoad(procs[p].decoded, users),
                decoded |-> procs[p].decoded, at |-> procs[p].at]
    /\ procs' = [procs EXCEPT ![p] = Idle]
    /\ UNCHANGED <<now, jwtSecret, appVars, users, nextId, blacklist, issued, calls,
                   loggedOut, refreshVars>>

Logout(p, token) ==
    /\ Free(p)
    /\ LET r == logout(token, blacklist, jwtSecret, now)
           sync == getCurrentUser(token, blacklist, jwtSecret, now)
       IN  /\ blacklist' = r.blacklist
           /\ loggedOut' = IF r.outcome.ok THEN loggedOut \cup {Trim(token)}
                           ELSE loggedOut
           /\ last' = [op |-> "logout", by |-> p, result |-> r.outcome,
                       token |-> token, at |-> Conditions(token),
                       wouldGet |-> IF sync.outcome.ok
                                    THEN getCurrentUserLoad(sync.outcome.val, users)
                                    ELSE sync.outcome,
                       changed |-> r.blacklist # blacklist]
    /\ UNCHANGED <<now, jwtSecret, appVars, users, nextId, procs, issued, calls,
                   refreshVars>>

\* the outcome is observed (checked against the claims) and dropped
Observe ==
    /\ ~Observed
    /\ last' = None
    /\ UNCHANGED <<now, jwtSecret, appVars, users, nextId, blacklist, procs, issued, calls,
                   loggedOut, refreshVars>>

Init ==
    /\ now = 0
    /\ jwtSecret = "server"
    /\ users = {}
    /\ nextId = 1
    /\ blacklist = << >>
    /\ procs = [p \in Procs |-> Idle]
    /\ last = None
    /\ issued = {}
    /\ loggedOut = {}
    /\ calls = {}
    /\ applications = {}
    /\ nextAppId = 1
    /\ refreshTokens = {}
    /\ rprocs = [p \in Procs |-> Idle]
    /\ nextRaw = 1
    /\ rotations = << >>
    /\ lineage = {}

Next ==
    \/ Tick
    \/ \E p \in Procs, data \in RegisterInputs : RegisterCall(p, data)
    \/ \E p \in Procs : RegisterReturn(p)
    \/ \E p \in Procs, data \in LoginInputs : LoginCall(p, data)
    \/ \E p \in Procs : LoginReturn(p)
    \/ \E p \in Procs, token \in TokenInputs : GetCurrentUserCall(p, token)
    \/ \E p \in Procs : GetCurrentUserReturn(p)
    \/ \E p \in Procs, token \in TokenInputs : Logout(p, token)
    \/ Observe

Spec == Init /\ [][Next]_vars

(***************************************************************************)
(* model: the RefreshToken table (tokenHash is its unique key)             *)
(***************************************************************************)
\* a row as prisma.refreshToken.create stores it: revoked and replacedBy
\* take their defaults
createRefreshToken(rt, data) ==
    rt \cup {[tokenHash |-> data.tokenHash, userId |-> data.userId,
              expiresAt |-> data.expiresAt, revoked |-> FALSE, replacedBy |-> Null]}

\* findUnique({where: {tokenHash}, include: {user: true}})
findRefreshToken(rt, us, tokenHash) ==
    IF \E r \in rt : r.tokenHash = tokenHash
    THEN LET r == CHOOSE r \in rt : r.tokenHash = tokenHash
         IN  r @@ [user |-> FindUnique(us, "id", r.userId)]
    ELSE Null

\* revokeRefreshToken leaving the revoked flag as it was
revokeRefreshToken_LinkOnly(rt, tokenHash, replacedBy) ==
    {IF r.tokenHash = tokenHash THEN [r EXCEPT !.replacedBy = replacedBy] ELSE r
       : r \in rt}

\* update({where: {tokenHash}, data: {revoked: true, replacedBy}}): whatever
\* the row's revoked flag is
revokeRefreshToken(rt, tokenHash, replacedBy) ==
    {IF r.tokenHash = tokenHash
     THEN [r EXCEPT !.revoked = TRUE, !.replacedBy = replacedBy]
     ELSE r : r \in rt}

\* cleanupExpiredRefreshTokens deleting the rows that expire at this instant too
cleanupExpiredRefreshTokens_DropsLast(rt, clock) ==
    {r \in rt : ~(r.expiresAt <= clock \/ r.revoked)}

\* deleteMany({where: {OR: [{expiresAt: {lt: new Date()}}, {revoked: true}]}})
cleanupExpiredRefreshTokens(rt, clock) ==
    {r \in rt : ~(r.expiresAt < clock \/ r.revoked)}

\* revokeAllRefreshTokensForUser writing the data of revokeRefreshToken
revokeAllRefreshTokensForUser_ClearsLinks(rt, userId) ==
    {IF r.userId = userId
     THEN [r EXCEPT !.revoked = TRUE, !.replacedBy = Null]
     ELSE r : r \in rt}

\* updateMany({where: {userId, revoked: false}, data: {revoked: true}})
revokeAllRefreshTokensForUser(rt, userId) ==
    {IF r.userId = userId /\ ~r.revoked THEN [r EXCEPT !.revoked = TRUE] ELSE r
       : r \in rt}

(***************************************************************************)
(* service: sessions and refreshSession                                    *)
(***************************************************************************)
\* the refresh cookie as parseCookies yields it: undefined, '' or the raw token
RawCookie(raw) == [t |-> "string", raw |-> raw]
HasRefreshCookie(cookie) == cookie.t = "string" /\ "raw" \in DOMAIN cookie

\* only a digest of the raw refresh token is stored
hashRefreshToken(raw) == [sha256 |-> raw]

\* the validity check of refreshSession on the looked-up record
RefreshRecordValid(record, clock) ==
    record # Null /\ ~record.revoked /\ record.expiresAt >= clock

\* controller.refresh answering a failure with the message of the service
refreshResponse_ServiceMessage(result) ==
    IF result.ok
    THEN [status |-> 200, user |-> result.val.user, token |-> result.val.token,
          cookie |-> result.val.refreshToken]
    ELSE [status |-> 401, error |-> result.err]

\* controller.refresh: 200 with the new cookie, or the one 401
refreshResponse(result) ==
    IF result.ok
    THEN [status |-> 200, user |-> result.val.user, token |-> result.val.token,
          cookie |-> result.val.refreshToken]
    ELSE [status |-> 401, error |-> "Invalid or expired token"]

(***************************************************************************)
(* Actions of SpecRefresh                                                  *)
(***************************************************************************)
RFree(p) == Observed /\ rprocs[p] = Idle /\ (p = "p1" \/ rprocs["p1"] # Idle)

Count(raw) == IF raw \in DOMAIN rotations THEN rotations[raw] ELSE 0

\* what a client can present: an unknown value (0), or a token that was handed
\* out; the successor of a rotation in flight has not been handed out yet
Presentable ==
    {0} \cup {raw \in 1..(nextRaw - 1) :
                /\ \E r \in refreshTokens : r.tokenHash = hashRefreshToken(raw)
                /\ \A q \in Procs : rprocs[q] = Idle \/ rprocs[q].newRaw # raw}

\* a login or register hands out the first refresh token of a session
CreateSession(u) ==
    /\ Observed
    /\ nextRaw <= MaxRaw
    /\ refreshTokens' = createRefreshToken(refreshTokens,
                            [tokenHash |-> hashRefreshToken(nextRaw), userId |-> u.id,
                             expiresAt |-> now + RefreshTtl * 1000])
    /\ nextRaw' = nextRaw + 1
    /\ UNCHANGED <<now, jwtSecret, appVars, authVars, rprocs, rotations, lineage>>

\* controller.refresh without a refresh cookie: the service is not called
RefreshWithoutCookie(p, cookie) ==
    /\ RFree(p)
    /\ ~HasRefreshCookie(cookie)
    /\ last' = [op |-> "refresh", by |-> p, raw |-> 0,
                at |-> [live |-> FALSE, replay |-> FALSE, concurrent |-> FALSE],
                result |-> Err("not called"),
                response |-> [status |-> 401, error |-> "Invalid or expired token"],
                step |-> "cookie"]
    /\ UNCHANGED <<now, jwtSecret, appVars, users, nextId, blacklist, procs, issued,
                   calls, loggedOut,
                   refreshVars>>

\* refreshSession up to "await model.findRefreshToken" and the validity check
RefreshCall(p, raw) ==
    /\ RFree(p)
    /\ raw \in Presentable
    /\ LET record == findRefreshToken(refreshTokens, users, hashRefreshToken(raw))
           at == [live |-> RefreshRecordValid(record, now),
                  replay |-> Count(raw) > 0,
                  concurrent |-> \E q \in Procs : rprocs[q] # Idle /\ rprocs[q].raw = raw]
       IN  IF RefreshRecordValid(record, now)
           THEN /\ nextRaw <= MaxRaw
                /\ rprocs' = [rprocs EXCEPT ![p] =
                       [pc |-> "revoke", raw |-> raw, record |-> record,
                        newRaw |-> nextRaw, at |-> at]]
                /\ nextRaw' = nextRaw + 1
                /\ UNCHANGED last
           ELSE /\ last' = [op |-> "refresh", by |-> p, raw |-> raw, at |-> at,
                            result |-> Err("Invalid or expired token"),
                            response |-> refreshResponse(Err("Invalid or expired token")),
                            step |-> "lookup"]
                /\ UNCHANGED <<rprocs, nextRaw>>
    /\ UNCHANGED <<now, jwtSecret, appVars, users, nextId, blacklist, procs, issued,
                   calls, loggedOut,
                   refreshTokens, rotations, lineage>>

\* rotate (a): await model.revokeRefreshToken(tokenHash)
RefreshRevoke(p) ==
    /\ Observed
    /\ rprocs[p].pc = "revoke"
    /\ refreshTokens' = revokeRefreshToken(refreshTokens, rprocs[p].record.tokenHash, Null)
    /\ rprocs' = [rprocs EXCEPT ![p].pc = "create"]
    /\ UNCHANGED <<now, jwtSecret, appVars, authVars, nextRaw, rotations, lineage>>

\* rotate (b): await model.createRefreshToken(...)
RefreshCreate(p) ==
    /\ Observed
    /\ rprocs[p].pc = "create"
    /\ refreshTokens' = createRefreshToken(refreshTokens,
                            [tokenHash |-> hashRefreshToken(rprocs[p].newRaw),
                             userId |-> rprocs[p].record.userId,
                             expiresAt |-> now + RefreshTtl * 1000])
    /\ lineage' = lineage \cup {<<rprocs[p].record.tokenHash,
                                 hashRefreshToken(rprocs[p].newRaw)>>}
    /\ rprocs' = [rprocs EXCEPT ![p].pc = "link"]
    /\ UNCHANGED <<now, jwtSecret, appVars, authVars, nextRaw, rotations>>

\* rotate (b) when the insert is rejected by the database: the request ends
RefreshCreateFails(p) ==
    /\ Observed
    /\ rprocs[p].pc = "create"
    /\ last' = [op |-> "refresh", by |-> p, raw |-> rprocs[p].raw, at |-> rprocs[p].at,
                result |-> Err("database unavailable"),
                response |-> refreshResponse(Err("database unavailable")),
                step |-> "create"]
    /\ rprocs' = [rprocs EXCEPT ![p] = Idle]
    /\ UNCHANGED <<now, jwtSecret, appVars, users, nextId, blacklist, procs, issued,
                   calls, loggedOut,
                   refreshTokens, nextRaw, rotations, lineage>>

\* rotate (c): await model.revokeRefreshToken(tokenHash, newHash); then the
\* access token for the record's user is issued and the session returned
RefreshReturn(p) ==
    /\ Observed
    /\ rprocs[p].pc = "link"
    /\ refreshTokens' = revokeRefreshToken(refreshTokens, rprocs[p].record.tokenHash,
                                           hashRefreshToken(rprocs[p].newRaw))
    /\ LET user == rprocs[p].record.user
           token == generateToken([userId |-> user.id, email |-> user.email], NoOptions,
                                  jwtSecret, now)
           result == IF token.ok
                     THEN Ok([user |-> WithoutPassword(user), token |-> token.val,
                              refreshToken |-> rprocs[p].newRaw])
                     ELSE token
       IN  /\ last' = [op |-> "refresh", by |-> p, raw |-> rprocs[p].raw,
                       at |-> rprocs[p].at, result |-> result,
                       response |-> refreshResponse(result), step |-> "return"]
           /\ rotations' = IF result.ok
                           THEN MapSet(rotations, rprocs[p].raw, Count(rprocs[p].raw) + 1)
                           ELSE rotations
    /\ rprocs' = [rprocs EXCEPT ![p] = Idle]
    /\ UNCHANGED <<now, jwtSecret, appVars, users, nextId, blacklist, procs, issued,
                   calls, loggedOut,
                   nextRaw, lineage>>

\* the state after the accounts of the sessions have been registered
InitRefresh ==
    /\ now = 0
    /\ jwtSecret = "server"
    /\ users = {[id |-> 1, email |-> EmailA, password |-> bcryptHash(Password1),
                 name |-> Name1],
                [id |-> 2, email |-> EmailB, password |-> bcryptHash(Password2),
                 name |-> Name1]}
    /\ nextId = 3
    /\ blacklist = << >>
    /\ procs = [p \in Procs |-> Idle]
    /\ last = None
    /\ issued = {}
    /\ loggedOut = {}
    /\ calls = {}
    /\ applications = {}
    /\ nextAppId = 1
    /\ refreshTokens = {}
    /\ rprocs = [p \in Procs |-> Idle]
    /\ nextRaw = 1
    /\ rotations = << >>
    /\ lineage = {}

NextRefresh ==
    \/ Tick
    \/ \E u \in users : CreateSession(u)
    \/ \E p \in Procs, cookie \in {Undefined, Empty} : RefreshWithoutCookie(p, cookie)
    \/ \E p \in Procs, raw \in 0..MaxRaw : RefreshCall(p, raw)
    \/ \E p \in Procs : RefreshRevoke(p)
    \/ \E p \in Procs : RefreshCreate(p)
    \/ \E p \in Procs : RefreshCreateFails(p)
    \/ \E p \in Procs : RefreshReturn(p)
    \/ Observe

SpecRefresh == InitRefresh /\ [][NextRefresh]_vars

(***************************************************************************)
(* HTTP boundary: the Authorization header, the refresh cookie and the     *)
(* status mapping of getCurrentUser and logout                             *)
(***************************************************************************)
Uppers == <<"A", "B", "C", "D", "E", "F", "G", "H", "I", "J", "K", "L", "M",
            "N", "O", "P", "Q", "R", "S", "T", "U", "V", "W", "X", "Y", "Z">>
Lowers == <<"a", "b", "c", "d", "e", "f", "g", "h", "i", "j", "k", "l", "m",
            "n", "o", "p", "q", "r", "s", "t", "u", "v", "w", "x", "y", "z">>

LowerOf(c) ==
    IF \E i \in 1..Len(Uppers) : Uppers[i] = c
    THEN Lowers[CHOOSE i \in 1..Len(Uppers) : Uppers[i] = c]
    ELSE c

\* String.prototype.toLowerCase
ToLowerCase(v) == [v EXCEPT !.chars = [i \in 1..Len(v.chars) |-> LowerOf(v.chars[i])]]

\* a header value is kept as what authHeader.split(' ') yields
Header(parts) == [t |-> "string", parts |-> parts]

\* the extraction of the token from the Authorization header, as
\* getCurrentUser, logout and authMiddleware each do it
bearerToken(authHeader) ==
    IF authHeader = Undefined \/ authHeader.parts = <<Str(<<>>)>>
    THEN Err("Token is required")
    ELSE IF \/ Len(authHeader.parts) # 2
            \/ ToLowerCase(authHeader.parts[1]) # Str(<<"b", "e", "a", "r", "e", "r">>)
         THEN Err("Token is required")
    ELSE IF Falsy(authHeader.parts[2]) \/ Length(Trim(authHeader.parts[2])) = 0
         THEN Err("Token is required")
    ELSE Ok(authHeader.parts[2])

\* faults of the database client
DbDown == "Can't reach database server"
P2025 == "Invalid prisma.refreshToken.update() invocation: Record to update not found."

\* String.prototype.includes over the messages getCurrentUser and logout can
\* throw: for every substring the controller looks for, the messages with it
TokenContaining(sub) ==
    CASE sub = "Token" ->
           {"Token is required", "Token must be a non-empty string", P2025}
      [] sub = "Invalid" ->
           {"Invalid or expired token", "Invalid token: missing userId", P2025}
      [] sub = "expired" -> {"Invalid or expired token"}
      [] sub = "User not found" -> {"User not found"}

IsTokenError(message) ==
    \/ message \in TokenContaining("Token")
    \/ message \in TokenContaining("Invalid")
    \/ message \in TokenContaining("expired")

\* controller.getCurrentUser: 200 with the user, otherwise always 401
getCurrentUserResponse(result, production) ==
    IF result.ok THEN [status |-> 200, user |-> result.val]
    ELSE [status |-> 401,
          error |-> IF production THEN "Invalid or expired token"
                    ELSE IF IsTokenError(result.err)
                            \/ result.err \in TokenContaining("User not found")
                         THEN result.err
                    ELSE "Authentication failed"]

\* controller.logout, catch branch
logoutError(message, production) ==
    IF IsTokenError(message)
    THEN [status |-> 401,
          error |-> IF production THEN "Invalid or expired token" ELSE message]
    ELSE [status |-> 500,
          error |-> IF production THEN "Internal server error" ELSE message]

\* controller.logout: the early 401 of the header checks, 200 with the
\* acknowledgement of the service, or the mapped failure
logoutResponse(token, result, production) ==
    IF ~token.ok THEN [status |-> 401, error |-> token.err]
    ELSE IF result.ok THEN [status |-> 200, message |-> result.val.message]
    ELSE logoutError(result.err, production)

(***************************************************************************)
(* middleware: authMiddleware in front of every /applications route        *)
(***************************************************************************)
\* authMiddleware letting a blacklisted token through
authMiddleware_NoBlacklistCheck(authHeader, bl, secret, clock) ==
    LET token == bearerToken(authHeader)
        decoded == verifyToken(token.val, secret, clock)
    IN  IF ~token.ok THEN [outcome |-> token, blacklist |-> bl]
        ELSE IF decoded = Null \/ MissingUserId(decoded)
             THEN [outcome |-> Err("Invalid or expired token"), blacklist |-> bl]
        ELSE [outcome |-> Ok(decoded), blacklist |-> bl]

\* authMiddleware putting the token it rejects into the blacklist
authMiddleware_BlacklistsRejected(authHeader, bl, secret, clock) ==
    LET token == bearerToken(authHeader)
        listed == isBlacklisted(bl, token.val, clock)
        decoded == verifyToken(token.val, secret, clock)
    IN  IF ~token.ok THEN [outcome |-> token, blacklist |-> bl]
        ELSE IF listed.revoked
             THEN [outcome |-> Err("Invalid or expired token"), blacklist |-> bl]
        ELSE IF decoded = Null \/ MissingUserId(decoded)
             THEN [outcome |-> Err("Invalid or expired token"),
                   blacklist |-> addToBlacklist(listed.blacklist, token.val, 1, clock)]
        ELSE [outcome |-> Ok(decoded), blacklist |-> listed.blacklist]

\* authMiddleware up to "await prisma.user.findUnique": the outcome so far
\* (the decoded claims when every check passed) and the blacklist afterwards
authMiddleware(authHeader, bl, secret, clock) ==
    LET token == bearerToken(authHeader)
        listed == isBlacklisted(bl, token.val, clock)
        decoded == verifyToken(token.val, secret, clock)
    IN  IF ~token.ok THEN [outcome |-> token, blacklist |-> bl]
        ELSE IF listed.revoked
             THEN [outcome |-> Err("Invalid or expired token"), blacklist |-> bl]
        ELSE IF decoded = Null \/ MissingUserId(decoded)
             THEN [outcome |-> Err("Invalid or expired token"),
                   blacklist |-> listed.blacklist]
        ELSE [outcome |-> Ok(decoded), blacklist |-> listed.blacklist]

\* authMiddleware after the lookup: req.user, or the 401
authMiddlewareLoad(decoded, us) ==
    LET row == FindUnique(us, "id", decoded.userId)
    IN  IF row = Null THEN Err("Invalid or expired token") ELSE Ok(SelectPublic(row))

(***************************************************************************)
(* Inputs and actions of SpecHttp                                          *)
(***************************************************************************)
Bearer == Str(<<"B", "e", "a", "r", "e", "r">>)
bearer == Str(<<"b", "e", "a", "r", "e", "r">>)
Basic == Str(<<"B", "a", "s", "i", "c">>)

HeaderTokens ==
    issued \cup {ForeignSecretToken, NoUserIdToken, UnknownUserToken, Garbage, Empty}

HeaderInputs ==
    {Undefined, Header(<<Empty>>), Header(<<Bearer>>)}
        \cup {Header(<<scheme, token>>) : scheme \in {Bearer, bearer, Basic},
                                          token \in HeaderTokens}
        \cup {Header(<<Bearer, token, token>>) : token \in issued}

CookieInputs == {Undefined, Empty} \cup {RawCookie(raw) : raw \in 0..(nextRaw - 1)}

\* controller.logout with service.logout up to the revocation of the refresh
\* token; without a refresh cookie the request ends here
LogoutRequest(p, authHeader, cookie) ==
    /\ Free(p)
    /\ LET token == bearerToken(authHeader)
           r == IF token.ok THEN logout(token.val, blacklist, jwtSecret, now)
                ELSE [outcome |-> token, blacklist |-> blacklist]
           before == [blacklist |-> blacklist, refreshTokens |-> refreshTokens]
       IN  /\ blacklist' = r.blacklist
           /\ IF r.outcome.ok /\ HasRefreshCookie(cookie)
              THEN /\ procs' = [procs EXCEPT ![p] =
                          [pc |-> "logout", token |-> token, result |-> r.outcome,
                           cookie |-> cookie]]
                   /\ UNCHANGED last
              ELSE /\ last' = [op |-> "http logout", by |-> p, result |-> r.outcome,
                               response |-> [pr \in BOOLEAN |->
                                               logoutResponse(token, r.outcome, pr)],
                               cause |-> IF ~token.ok THEN "header"
                                         ELSE IF ~r.outcome.ok THEN "validation"
                                         ELSE "none",
                               cookie |-> cookie, cleared |-> FALSE,
                               refreshRevoked |-> FALSE, before |-> before]
                   /\ UNCHANGED procs
    /\ UNCHANGED <<now, jwtSecret, appVars, users, nextId, issued, calls, loggedOut,
                   refreshVars>>

\* service.logout revoking the presented refresh token; the controller then
\* clears the cookie
LogoutRevokeRefresh(p) ==
    /\ Observed
    /\ procs[p].pc = "logout"
    /\ LET tokenHash == hashRefreshToken(procs[p].cookie.raw)
           found == \E r \in refreshTokens : r.tokenHash = tokenHash
           result == IF found THEN procs[p].result ELSE Err(P2025)
       IN  /\ refreshTokens' = IF found
                               THEN revokeRefreshToken(refreshTokens, tokenHash, Null)
                               ELSE refreshTokens
           /\ last' = [op |-> "http logout", by |-> p, result |-> result,
                       response |-> [pr \in BOOLEAN |->
                                       logoutResponse(procs[p].token, result, pr)],
                       cause |-> IF found THEN "none" ELSE "refresh revoke",
                       cookie |-> procs[p].cookie, cleared |-> found,
                       refreshRevoked |-> found,
                       before |-> [blacklist |-> blacklist, refreshTokens |-> refreshTokens]]
    /\ procs' = [procs EXCEPT ![p] = Idle]
    /\ UNCHANGED <<now, jwtSecret, appVars, users, nextId, blacklist, issued, calls,
                   loggedOut,
                   rprocs, nextRaw, rotations, lineage>>

\* the database is unreachable when the refresh token is to be revoked
LogoutFault(p) ==
    /\ Observed
    /\ procs[p].pc = "logout"
    /\ last' = [op |-> "http logout", by |-> p, result |-> Err(DbDown),
                response |-> [pr \in BOOLEAN |->
                                logoutResponse(procs[p].token, Err(DbDown), pr)],
                cause |-> "fault", cookie |-> procs[p].cookie, cleared |-> FALSE,
                refreshRevoked |-> FALSE,
                before |-> [blacklist |-> blacklist, refreshTokens |-> refreshTokens]]
    /\ procs' = [procs EXCEPT ![p] = Idle]
    /\ UNCHANGED <<now, jwtSecret, appVars, users, nextId, blacklist, issued, calls,
                   loggedOut,
                   refreshVars>>

\* model.findUserByEmailWithPassword throws: login propagates it to the controller
LoginFault(p) ==
    /\ Observed
    /\ procs[p].pc = "login"
    /\ last' = [op |-> "login", by |-> p, result |-> Err(DbDown),
                response |-> loginResponse(Err(DbDown)), branch |-> "fault"]
    /\ procs' = [procs EXCEPT ![p] = Idle]
    /\ UNCHANGED <<now, jwtSecret, appVars, users, nextId, blacklist, issued, calls,
                   loggedOut,
                   refreshVars>>

\* model.findUserById throws: getCurrentUser propagates it to the controller
GetCurrentUserFault(p) ==
    /\ Observed
    /\ procs[p].pc = "getCurrentUser"
    /\ last' = [op |-> "getCurrentUser", by |-> p, result |-> Err(DbDown),
                response |-> [pr \in BOOLEAN |->
                                getCurrentUserResponse(Err(DbDown), pr)],
                branch |-> "fault", at |-> procs[p].at]
    /\ procs' = [procs EXCEPT ![p] = Idle]
    /\ UNCHANGED <<now, jwtSecret, appVars, users, nextId, blacklist, issued, calls,
                   loggedOut,
                   refreshVars>>

\* a request to a route under /applications: authMiddleware up to the lookup
ApplicationsRequest(p, authHeader) ==
    /\ Free(p)
    /\ LET r == authMiddleware(authHeader, blacklist, jwtSecret, now)
           token == bearerToken(authHeader)
           at == [header |-> authHeader,
                  checks |-> IF token.ok THEN Conditions(token.val) ELSE Conditions(Null)]
       IN  /\ blacklist' = r.blacklist
           /\ IF r.outcome.ok
              THEN /\ procs' = [procs EXCEPT ![p] =
                          [pc |-> "authMiddleware", decoded |-> r.outcome.val, at |-> at]]
                   /\ UNCHANGED last
              ELSE /\ last' = [op |-> "applications", by |-> p, at |-> at,
                               next |-> FALSE, reqUser |-> Null,
                               response |-> [status |-> 401, error |-> r.outcome.err]]
                   /\ UNCHANGED procs
    /\ UNCHANGED <<now, jwtSecret, appVars, users, nextId, issued, calls, loggedOut,
                   refreshVars>>

\* authMiddleware after the lookup: next() with req.user set, or the 401
ApplicationsLoad(p) ==
    /\ Observed
    /\ procs[p].pc = "authMiddleware"
    /\ LET r == authMiddlewareLoad(procs[p].decoded, users)
       IN  last' = [op |-> "applications", by |-> p, at |-> procs[p].at,
                    next |-> r.ok, reqUser |-> IF r.ok THEN r.val ELSE Null,
                    response |-> IF r.ok THEN [status |-> 0, error |-> "handler"]
                                 ELSE [status |-> 401, error |-> r.err]]
    /\ procs' = [procs EXCEPT ![p] = Idle]
    /\ UNCHANGED <<now, jwtSecret, appVars, users, nextId, blacklist, issued, calls,
                   loggedOut,
                   refreshVars>>

\* prisma.user.findUnique throws inside authMiddleware: the catch answers 401
ApplicationsFault(p) ==
    /\ Observed
    /\ procs[p].pc = "authMiddleware"
    /\ last' = [op |-> "applications", by |-> p, at |-> procs[p].at,
                next |-> FALSE, reqUser |-> Null, fault |-> TRUE,
                response |-> [status |-> 401, error |-> "Invalid or expired token"]]
    /\ procs' = [procs EXCEPT ![p] = Idle]
    /\ UNCHANGED <<now, jwtSecret, appVars, users, nextId, blacklist, issued, calls,
                   loggedOut,
                   refreshVars>>

\* the state after one account has been registered
InitHttp ==
    /\ now = 0
    /\ jwtSecret = "server"
    /\ users = {[id |-> 1, email |-> EmailA, password |-> bcryptHash(Password1),
                 name |-> Name1]}
    /\ nextId = 2
    /\ blacklist = << >>
    /\ procs = [p \in Procs |-> Idle]
    /\ last = None
    /\ issued = {}
    /\ loggedOut = {}
    /\ calls = {}
    /\ applications = {}
    /\ nextAppId = 1
    /\ refreshTokens = {}
    /\ rprocs = [p \in Procs |-> Idle]
    /\ nextRaw = 1
    /\ rotations = << >>
    /\ lineage = {}

\* the token of a login of that account at time 0
UserToken == jwtSign([userId |-> 1, email |-> EmailA], "server", maxAge, 0)

\* the state after that account has logged in once
InitSession ==
    /\ now = 0
    /\ jwtSecret = "server"
    /\ users = {[id |-> 1, email |-> EmailA, password |-> bcryptHash(Password1),
                 name |-> Name1]}
    /\ nextId = 2
    /\ blacklist = << >>
    /\ procs = [p \in Procs |-> Idle]
    /\ last = None
    /\ issued = {UserToken}
    /\ loggedOut = {}
    /\ calls = {}
    /\ applications = {}
    /\ nextAppId = 1
    /\ refreshTokens = {}
    /\ rprocs = [p \in Procs |-> Idle]
    /\ nextRaw = 1
    /\ rotations = << >>
    /\ lineage = {}

\* the state after that account has logged in once and received the first
\* refresh token of its session
InitLogout ==
    /\ now = 0
    /\ jwtSecret = "server"
    /\ users = {[id |-> 1, email |-> EmailA, password |-> bcryptHash(Password1),
                 name |-> Name1]}
    /\ nextId = 2
    /\ blacklist = << >>
    /\ procs = [p \in Procs |-> Idle]
    /\ last = None
    /\ issued = {UserToken}
    /\ loggedOut = {}
    /\ calls = {}
    /\ applications = {}
    /\ nextAppId = 1
    /\ refreshTokens = createRefreshToken({}, [tokenHash |-> hashRefreshToken(1),
                                               userId |-> 1,
                                               expiresAt |-> RefreshTtl * 1000])
    /\ rprocs = [p \in Procs |-> Idle]
    /\ nextRaw = 2
    /\ rotations = << >>
    /\ lineage = {}

\* POST /auth/logout
NextLogout ==
    \/ Tick
    \/ \E p \in Procs, authHeader \in HeaderInputs, cookie \in CookieInputs :
          LogoutRequest(p, authHeader, cookie)
    \/ \E p \in Procs : LogoutRevokeRefresh(p)
    \/ \E p \in Procs : LogoutFault(p)
    \/ Observe

SpecLogout == InitLogout /\ [][NextLogout]_vars

\* the state after that account has logged in and refreshed its session
\* once: the first refresh token is revoked and linked to its successor
InitRotated ==
    /\ now = 0
    /\ jwtSecret = "server"
    /\ users = {[id |-> 1, email |-> EmailA, password |-> bcryptHash(Password1),
                 name |-> Name1]}
    /\ nextId = 2
    /\ blacklist = << >>
    /\ procs = [p \in Procs |-> Idle]
    /\ last = None
    /\ issued = {UserToken}
    /\ loggedOut = {}
    /\ calls = {}
    /\ applications = {}
    /\ nextAppId = 1
    /\ refreshTokens =
          createRefreshToken(
              revokeRefreshToken(
                  createRefreshToken({}, [tokenHash |-> hashRefreshToken(1),
                                          userId |-> 1,
                                          expiresAt |-> RefreshTtl * 1000]),
                  hashRefreshToken(1), hashRefreshToken(2)),
              [tokenHash |-> hashRefreshToken(2), userId |-> 1,
               expiresAt |-> RefreshTtl * 1000])
    /\ rprocs = [p \in Procs |-> Idle]
    /\ nextRaw = 3
    /\ rotations = [raw \in {1} |-> 1]
    /\ lineage = {<<hashRefreshToken(1), hashRefreshToken(2)>>}

\* POST /auth/logout after a rotation
SpecChain == InitRotated /\ [][NextLogout]_vars

\* login and getCurrentUser with a database that may be unreachable
NextFaults ==
    \/ Tick
    \/ \E p \in Procs, data \in LoginInputs : LoginCall(p, data)
    \/ \E p \in Procs : LoginReturn(p)
    \/ \E p \in Procs : LoginFault(p)
    \/ \E p \in Procs, token \in HeaderTokens : GetCurrentUserCall(p, token)
    \/ \E p \in Procs : GetCurrentUserReturn(p)
    \/ \E p \in Procs : GetCurrentUserFault(p)
    \/ Observe

SpecFaults == InitHttp /\ [][NextFaults]_vars

\* the routes under /applications next to logouts
NextApplications ==
    \/ Tick
    \/ \E p \in Procs, token \in HeaderTokens : Logout(p, token)
    \/ \E p \in Procs, authHeader \in HeaderInputs : ApplicationsRequest(p, authHeader)
    \/ \E p \in Procs : ApplicationsLoad(p)
    \/ \E p \in Procs : ApplicationsFault(p)
    \/ Observe

SpecApplications == InitSession /\ [][NextApplications]_vars

(***************************************************************************)
(* Actions of SpecBlacklist: the functions of tokenBlacklist called one by *)
(* one                                                                     *)
(***************************************************************************)
BlacklistTokens == {UserToken, UnknownUserToken, Garbage}

\* remaining lifetimes, in seconds, that a caller passes to addToBlacklist
ExpiresInInputs == {0, 1}

AddToBlacklist(token, expiresIn) ==
    /\ Observed
    /\ blacklist' = addToBlacklist(blacklist, token, expiresIn, now)
    /\ last' = [op |-> "addToBlacklist", token |-> token, expiresIn |-> expiresIn,
                before |-> blacklist]
    /\ UNCHANGED <<now, jwtSecret, appVars, users, nextId, procs, issued, calls,
                   loggedOut, refreshVars>>

IsBlacklisted(token) ==
    /\ Observed
    /\ LET r == isBlacklisted(blacklist, token, now)
       IN  /\ blacklist' = r.blacklist
           /\ last' = [op |-> "isBlacklisted", token |-> token, revoked |-> r.revoked,
                       before |-> blacklist]
    /\ UNCHANGED <<now, jwtSecret, appVars, users, nextId, procs, issued, calls,
                   loggedOut, refreshVars>>

CleanupExpiredTokens ==
    /\ Observed
    /\ blacklist' = cleanupExpiredTokens(blacklist, now)
    /\ last' = [op |-> "cleanupExpiredTokens", before |-> blacklist]
    /\ UNCHANGED <<now, jwtSecret, appVars, users, nextId, procs, issued, calls,
                   loggedOut, refreshVars>>

\* Date.now() is positive when the module is loaded
InitBlacklist ==
    /\ now = TickMs
    /\ jwtSecret = "server"
    /\ users = {}
    /\ nextId = 1
    /\ blacklist = << >>
    /\ procs = [p \in Procs |-> Idle]
    /\ last = None
    /\ issued = {}
    /\ loggedOut = {}
    /\ calls = {}
    /\ applications = {}
    /\ nextAppId = 1
    /\ refreshTokens = {}
    /\ rprocs = [p \in Procs |-> Idle]
    /\ nextRaw = 1
    /\ rotations = << >>
    /\ lineage = {}

NextBlacklist ==
    \/ Tick
    \/ \E token \in BlacklistTokens, expiresIn \in ExpiresInInputs :
          AddToBlacklist(token, expiresIn)
    \/ \E token \in BlacklistTokens : IsBlacklisted(token)
    \/ CleanupExpiredTokens
    \/ Observe

SpecBlacklist == InitBlacklist /\ [][NextBlacklist]_vars

\* time passes and responses are delivered; no timer of the module calls
\* cleanupExpiredTokens, and whether further requests arrive is up to the
\* clients
SpecBlacklistFair ==
    InitBlacklist /\ [][NextBlacklist]_vars /\ WF_vars(Tick) /\ WF_vars(Observe)

(***************************************************************************)
(* Actions of SpecToken: generateToken and verifyToken called one by one   *)
(***************************************************************************)
PayloadInputs ==
    {[userId |-> 1, email |-> EmailA], [userId |-> 1], << >>, Null, Undefined,
     NumberValue, Str(<<"x">>), [t |-> "array", items |-> << >>],
     [t |-> "array", items |-> <<NumberValue>>]}

OptionsInputs == {NoOptions, [expiresIn |-> 0], [expiresIn |-> 1], [expiresIn |-> 2]}

\* a token of the server that is not valid before second 5
NotYetValidToken ==
    [t |-> "string", ws |-> FALSE,
     jwt |-> [payload |-> [userId |-> 1, iat |-> 0, nbf |-> 5, exp |-> 6],
              secret |-> "server"]]

VerifyInputs ==
    {c.token : c \in calls}
        \cup {ForeignSecretToken, Garbage, NotYetValidToken, Undefined, Null, Empty,
              NumberValue}

\* what a token is at the time of the call, with times in milliseconds
TokenKind(token) ==
    IF ~IsString(token) \/ Length(token) = 0 THEN "no string"
    ELSE IF ~IsJwt(token) THEN "malformed"
    ELSE IF token.jwt.secret # jwtSecret THEN "mismatch"
    ELSE IF "nbf" \in DOMAIN token.jwt.payload /\ now < token.jwt.payload.nbf * 1000
         THEN "not yet valid"
    ELSE IF now >= token.jwt.payload.exp * 1000 THEN "expired"
    ELSE "valid"

GenerateToken(payload, options) ==
    /\ Observed
    /\ LET r == generateToken(payload, options, jwtSecret, now)
       IN  /\ r.ok => Cardinality(calls) < MaxIssued
           /\ calls' = IF r.ok
                       THEN calls \cup {[payload |-> payload, options |-> options,
                                         at |-> now, token |-> r.val]}
                       ELSE calls
           /\ last' = [op |-> "generateToken", payload |-> payload,
                       options |-> options, at |-> now, result |-> r]
    /\ UNCHANGED <<now, jwtSecret, appVars, users, nextId, blacklist, procs, issued,
                   loggedOut,
                   refreshVars>>

VerifyToken(token) ==
    /\ Observed
    /\ last' = [op |-> "verifyToken", token |-> token, kind |-> TokenKind(token),
                result |-> verifyToken(token, jwtSecret, now)]
    /\ UNCHANGED <<now, jwtSecret, appVars, users, nextId, blacklist, procs, issued, calls,
                   loggedOut, refreshVars>>

\* the process starts with or without JWT_SECRET in its environment
InitToken ==
    /\ now = 0
    /\ jwtSecret \in {"server", "unset"}
    /\ users = {}
    /\ nextId = 1
    /\ blacklist = << >>
    /\ procs = [p \in Procs |-> Idle]
    /\ last = None
    /\ issued = {}
    /\ loggedOut = {}
    /\ calls = {}
    /\ applications = {}
    /\ nextAppId = 1
    /\ refreshTokens = {}
    /\ rprocs = [p \in Procs |-> Idle]
    /\ nextRaw = 1
    /\ rotations = << >>
    /\ lineage = {}

NextToken ==
    \/ Tick
    \/ \E payload \in PayloadInputs, options \in OptionsInputs :
          GenerateToken(payload, options)
    \/ \E token \in VerifyInputs : VerifyToken(token)
    \/ Observe

SpecToken == InitToken /\ [][NextToken]_vars

(***************************************************************************)
(* applications/validations: idSchema, createApplicationSchema,            *)
(* updateApplicationSchema.  A request body or query is a function from    *)
(* its keys to their values; a message built from a field name is the pair *)
(* of the field and the rule.                                              *)
(***************************************************************************)
Num(n) == [t |-> "number", n |-> n]
NaN == [t |-> "number", nan |-> TRUE]
Digits == <<"0", "1", "2", "3", "4", "5", "6", "7", "8", "9">>

DigitValue(c) == (CHOOSE i \in 1..10 : Digits[i] = c) - 1

RECURSIVE DecimalValue(_)
DecimalValue(cs) ==
    IF cs = << >> THEN 0
    ELSE 10 * DecimalValue(SubSeq(cs, 1, Len(cs) - 1)) + DigitValue(cs[Len(cs)])

\* a number that is no integer, kept as its integer part
Fraction(whole) == [t |-> "number", n |-> whole, frac |-> TRUE]

IsFraction(n) == "frac" \in DOMAIN n

AllDigits(cs) == \A i \in 1..Len(cs) : \E d \in 1..10 : Digits[d] = cs[i]

\* Number(val): a number is itself, null and a blank string are 0, a string
\* of decimal digits with at most one point is its value, anything else NaN
Number(val) ==
    IF val = Null THEN Num(0)
    ELSE IF val.t = "number" THEN val
    ELSE IF ~IsString(val) THEN NaN
    ELSE LET cs == Trim(val).chars
         IN  IF cs = << >> THEN Num(0)
             ELSE IF AllDigits(cs) THEN Num(DecimalValue(cs))
             ELSE IF /\ Len(cs) > 1
                     /\ \E i \in 1..Len(cs) :
                           /\ cs[i] = "."
                           /\ AllDigits(SubSeq(cs, 1, i - 1))
                           /\ AllDigits(SubSeq(cs, i + 1, Len(cs)))
                  THEN LET i == CHOOSE j \in 1..Len(cs) : cs[j] = "."
                           whole == DecimalValue(SubSeq(cs, 1, i - 1))
                       IN  IF DecimalValue(SubSeq(cs, i + 1, Len(cs))) = 0
                           THEN Num(whole)
                           ELSE Fraction(whole)
             ELSE NaN

idSchema(val) ==
    LET n == Number(val)
    IN  IF n = NaN THEN Err("Application id must be a number")
        ELSE IF IsFraction(n) THEN Err("Application id must be an integer")
        ELSE IF n.n <= 0 THEN Err("Application id must be positive")
        ELSE Ok(n.n)

APPLIED == Str(<<"A", "P", "P", "L", "I", "E", "D">>)
INTERVIEWING == Str(<<"I", "N", "T", "E", "R", "V", "I", "E", "W", "I", "N", "G">>)
REJECTED == Str(<<"R", "E", "J", "E", "C", "T", "E", "D">>)
OFFER == Str(<<"O", "F", "F", "E", "R">>)
ACCEPTED == Str(<<"A", "C", "C", "E", "P", "T", "E", "D">>)
ALLOWED_STATUSES == {APPLIED, INTERVIEWING, REJECTED, OFFER, ACCEPTED}

FieldMaxLen == 200
UrlMaxLen == 2048

\* payload[key], undefined when the key is absent
Field(payload, key) == IF key \in DOMAIN payload THEN payload[key] ELSE Undefined

FieldMessage(fieldName, rule) == [field |-> fieldName, rule |-> rule]

\* trimmedString(fieldName): the trimmed value or the first issue
trimmedString(fieldName, v, required) ==
    IF v = Undefined
    THEN IF required THEN Err(FieldMessage(fieldName, "is required")) ELSE Ok(Undefined)
    ELSE IF ~IsString(v) THEN Err(FieldMessage(fieldName, "must be a string"))
    ELSE IF Length(Trim(v)) < 1
         THEN Err(FieldMessage(fieldName, "must be a non-empty string"))
    ELSE IF Length(Trim(v)) > FieldMaxLen
         THEN Err(FieldMessage(fieldName, "must be at most 200 characters long"))
    ELSE Ok(Trim(v))

\* z.enum(ALLOWED_STATUSES).optional()
statusEnum(v) ==
    IF v = Undefined THEN Ok(Undefined)
    ELSE IF v \in ALLOWED_STATUSES THEN Ok(v)
    ELSE Err("Invalid enum value")

\* new URL(v) succeeds: letters followed by a colon open the string
IsUrl(cs) ==
    \E i \in 2..Len(cs) :
        /\ cs[i] = ":"
        /\ \A j \in 1..(i - 1) : \E l \in 1..Len(Lowers) : cs[j] \in {Lowers[l], Uppers[l]}

urlIssue(v) ==
    IF v = Undefined THEN Err("URL is required")
    ELSE IF ~IsString(v) THEN Err("URL must be a string")
    ELSE IF Length(Trim(v)) < 1 THEN Err("URL must be a non-empty string")
    ELSE IF Length(Trim(v)) > UrlMaxLen
         THEN Err("URL must be at most 2048 characters long")
    ELSE IF ~IsUrl(Trim(v).chars) THEN Err("URL must be a valid URL")
    ELSE Ok(Trim(v))

\* the keys of the parsed object that carry a value
Defined(data) == [k \in {key \in DOMAIN data : data[key] # Undefined} |-> data[k]]

createApplicationSchema(payload) ==
    LET position == trimmedString("Position", Field(payload, "position"), TRUE)
        company == trimmedString("Company", Field(payload, "company"), TRUE)
        url == urlIssue(Field(payload, "url"))
        status == statusEnum(Field(payload, "status"))
    IN  IF ~position.ok THEN position
        ELSE IF ~company.ok THEN company
        ELSE IF ~url.ok THEN url
        ELSE IF ~status.ok THEN status
        ELSE Ok([position |-> position.val, company |-> company.val, url |-> url.val,
                 status |-> IF status.val = Undefined THEN APPLIED ELSE status.val])

\* updateApplicationSchema keeping the url of the body as well
updateApplicationSchema_KeepsUrl(payload) ==
    LET position == trimmedString("Position", Field(payload, "position"), FALSE)
        company == trimmedString("Company", Field(payload, "company"), FALSE)
        status == statusEnum(Field(payload, "status"))
        data == Defined([position |-> position.val, company |-> company.val,
                         status |-> status.val])
    IN  IF ~position.ok THEN position
        ELSE IF ~company.ok THEN company
        ELSE IF ~status.ok THEN status
        ELSE IF data = << >>
             THEN Err("At least one field (position, company, or status) must be provided")
        ELSE Ok(Defined([position |-> position.val, company |-> company.val,
                         status |-> status.val, url |-> Field(payload, "url")]))

\* updateApplicationSchema: only position, company and status are kept
updateApplicationSchema(payload) ==
    LET position == trimmedString("Position", Field(payload, "position"), FALSE)
        company == trimmedString("Company", Field(payload, "company"), FALSE)
        status == statusEnum(Field(payload, "status"))
        data == Defined([position |-> position.val, company |-> company.val,
                         status |-> status.val])
    IN  IF ~position.ok THEN position
        ELSE IF ~company.ok THEN company
        ELSE IF ~status.ok THEN status
        ELSE IF data = << >>
             THEN Err("At least one field (position, company, or status) must be provided")
        ELSE Ok(data)

\* the values of sortBy and sortOrder
SortDate == Str(<<"d", "a", "t", "e">>)
SortStatus == Str(<<"s", "t", "a", "t", "u", "s">>)
Asc == Str(<<"a", "s", "c">>)
Desc == Str(<<"d", "e", "s", "c">>)
ASC == Str(<<"A", "S", "C">>)
DESC == Str(<<"D", "E", "S", "C">>)

PageMax == 1000
PageSizeMax == 100
DefaultPage == 1
DefaultPageSize == 20

\* z.enum(['date', 'status']).optional().default('date')
sortByParam(v) ==
    IF v = Undefined THEN Ok(SortDate)
    ELSE IF v \in {SortDate, SortStatus} THEN Ok(v)
    ELSE Err("Invalid enum value")

\* z.enum(['asc', 'desc', 'ASC', 'DESC']).optional().default('desc') with the
\* transform to lower case
sortOrderParam(v) ==
    IF v = Undefined THEN Ok(Desc)
    ELSE IF v \in {Asc, Desc, ASC, DESC} THEN Ok(ToLowerCase(v))
    ELSE Err("Invalid enum value")

\* the page of listApplicationsSchema: the default, or Number(val) checked
\* to be a number, an integer, at least 1 and at most 1000
pageParam(v) ==
    LET n == IF v = Undefined THEN Num(DefaultPage) ELSE Number(v)
    IN  IF n = NaN THEN Err("Page must be a number")
        ELSE IF IsFraction(n) THEN Err("Page must be an integer")
        ELSE IF n.n < 1 THEN Err("Page must be at least 1")
        ELSE IF n.n > PageMax THEN Err("Page is too large")
        ELSE Ok(n.n)

\* pageSize clamped to 100 instead of rejected
pageSizeParam_Clamps(v) ==
    LET n == IF v = Undefined THEN Num(DefaultPageSize) ELSE Number(v)
    IN  IF n = NaN THEN Err("pageSize must be a number")
        ELSE IF IsFraction(n) THEN Err("pageSize must be an integer")
        ELSE IF n.n < 1 THEN Err("pageSize must be at least 1")
        ELSE IF n.n > PageSizeMax THEN Ok(PageSizeMax)
        ELSE Ok(n.n)

\* the pageSize of listApplicationsSchema: the default, or Number(val)
\* checked to be a number, an integer, at least 1 and at most 100
pageSizeParam(v) ==
    LET n == IF v = Undefined THEN Num(DefaultPageSize) ELSE Number(v)
    IN  IF n = NaN THEN Err("pageSize must be a number")
        ELSE IF IsFraction(n) THEN Err("pageSize must be an integer")
        ELSE IF n.n < 1 THEN Err("pageSize must be at least 1")
        ELSE IF n.n > PageSizeMax THEN Err("pageSize must not exceed 100")
        ELSE Ok(n.n)

\* parseWithErrorHandling(listApplicationsSchema, query): the first issue in
\* the order of the shape, otherwise the filters
listApplicationsSchema(query) ==
    LET status == statusEnum(Field(query, "status"))
        sortBy == sortByParam(Field(query, "sortBy"))
        sortOrder == sortOrderParam(Field(query, "sortOrder"))
        page == pageParam(Field(query, "page"))
        pageSize == pageSizeParam(Field(query, "pageSize"))
    IN  IF ~status.ok THEN status
        ELSE IF ~sortBy.ok THEN sortBy
        ELSE IF ~sortOrder.ok THEN sortOrder
        ELSE IF ~page.ok THEN page
        ELSE IF ~pageSize.ok THEN pageSize
        ELSE Ok([status |-> status.val, sortBy |-> sortBy.val,
                 sortOrder |-> sortOrder.val, page |-> page.val,
                 pageSize |-> pageSize.val])

(***************************************************************************)
(* applications/model: the JobApplication table (id is its key)            *)
(***************************************************************************)
baseSelect(row) ==
    [id |-> row.id, position |-> row.position, company |-> row.company,
     url |-> row.url, status |-> row.status, appliedAt |-> row.appliedAt]

\* prisma.jobApplication.create: id and appliedAt are set by the database
modelCreateApplication(apps, id, data, clock) ==
    apps \cup {[id |-> id, position |-> data.position, company |-> data.company,
                url |-> data.url, status |-> data.status, userId |-> data.userId,
                appliedAt |-> clock]}

\* findApplicationByIdForUser looking the row up by its id alone
findApplicationByIdForUser_AnyOwner(apps, id, userId) ==
    IF \E a \in apps : a.id = id
    THEN CHOOSE a \in apps : a.id = id
    ELSE Null

\* prisma.jobApplication.findFirst({where: {id, userId}, select})
findApplicationByIdForUser(apps, id, userId) ==
    IF \E a \in apps : a.id = id /\ a.userId = userId
    THEN CHOOSE a \in apps : a.id = id /\ a.userId = userId
    ELSE Null

\* prisma.jobApplication.update({ where: { id }, data }): the columns named
\* by data are written
modelUpdateApplication(apps, id, data) ==
    {IF a.id = id
     THEN [k \in DOMAIN a |-> IF k \in DOMAIN data THEN data[k] ELSE a[k]]
     ELSE a : a \in apps}

modelDeleteApplication(apps, id) == {a \in apps : a.id # id}

\* the order of the values of the status column (that of ALLOWED_STATUSES)
StatusRank(status) ==
    CASE status = APPLIED -> 1
      [] status = INTERVIEWING -> 2
      [] status = REJECTED -> 3
      [] status = OFFER -> 4
      [] status = ACCEPTED -> 5

SortKey(row, key) == IF key = "status" THEN StatusRank(row.status) ELSE row[key]

\* row a comes strictly before row b under the orderBy list
RECURSIVE ComesBefore(_, _, _)
ComesBefore(a, b, orderBy) ==
    IF orderBy = << >> THEN FALSE
    ELSE LET key == Head(orderBy).key
             ka == SortKey(a, key)
             kb == SortKey(b, key)
         IN  IF ka = kb THEN ComesBefore(a, b, Tail(orderBy))
             ELSE IF Head(orderBy).dir = Asc THEN ka < kb ELSE ka > kb

\* the orders in which the database may return the rows: every arrangement
\* that respects orderBy (rows that tie on every key come in any order)
Arrangements(rows, orderBy) ==
    {s \in [1..Cardinality(rows) -> rows] :
        /\ \A i, j \in DOMAIN s : i # j => s[i] # s[j]
        /\ \A i, j \in DOMAIN s : i < j => ~ComesBefore(s[j], s[i], orderBy)}

\* the where clause of listApplications and countApplications
OwnedBy(apps, userId, status) ==
    {a \in apps : a.userId = userId /\ (status = Undefined \/ a.status = status)}

\* prisma.jobApplication.findMany({where, orderBy, skip, take, select}): the
\* results the database may return
modelListApplications(apps, userId, status, orderBy, skip, take) ==
    {[i \in 1..Len(page) |-> baseSelect(page[i])] :
        page \in {SubSeq(s, skip + 1, IF skip + take < Len(s) THEN skip + take ELSE Len(s)) :
                    s \in Arrangements(OwnedBy(apps, userId, status), orderBy)}}

\* prisma.jobApplication.count({where})
modelCountApplications(apps, userId, status) ==
    Cardinality(OwnedBy(apps, userId, status))

(***************************************************************************)
(* applications/service: createApplication, updateApplication,             *)
(* deleteApplication                                                       *)
(***************************************************************************)
\* payload || {}
OrEmptyObject(payload) == IF payload = Undefined \/ payload = Null THEN << >> ELSE payload

\* createApplication: the outcome and the table afterwards
createApplication(userId, payload, apps, id, clock) ==
    LET validated == createApplicationSchema(OrEmptyObject(payload))
        data == [position |-> validated.val.position, company |-> validated.val.company,
                 url |-> validated.val.url, status |-> validated.val.status,
                 userId |-> userId]
        created == modelCreateApplication(apps, id, data, clock)
    IN  IF userId = 0 THEN [result |-> Err("User context is required"), apps |-> apps]
        ELSE IF ~validated.ok THEN [result |-> validated, apps |-> apps]
        ELSE [result |-> Ok(baseSelect(CHOOSE a \in created : a.id = id)),
              apps |-> created]

\* updateApplication up to "await model.findApplicationByIdForUser": the
\* failure, or the id and the validated data of the update to come
updateApplicationLookup(userId, id, payload, apps) ==
    LET applicationId == idSchema(id)
        validated == updateApplicationSchema(OrEmptyObject(payload))
    IN  IF userId = 0 THEN Err("User context is required")
        ELSE IF ~applicationId.ok THEN applicationId
        ELSE IF ~validated.ok THEN validated
        ELSE IF findApplicationByIdForUser(apps, applicationId.val, userId) = Null
             THEN Err("Application not found")
        ELSE Ok([applicationId |-> applicationId.val, validated |-> validated.val])

\* updateApplication from model.updateApplication on
updateApplicationWrite(loc, apps) ==
    IF ~\E a \in apps : a.id = loc.applicationId
    THEN [result |-> Err(P2025), apps |-> apps]
    ELSE LET updated == modelUpdateApplication(apps, loc.applicationId, loc.validated)
         IN  [result |-> Ok(baseSelect(CHOOSE a \in updated : a.id = loc.applicationId)),
              apps |-> updated]

\* deleteApplication up to "await model.findApplicationByIdForUser"
deleteApplicationLookup(userId, id, apps) ==
    LET applicationId == idSchema(id)
    IN  IF userId = 0 THEN Err("User context is required")
        ELSE IF ~applicationId.ok THEN applicationId
        ELSE IF findApplicationByIdForUser(apps, applicationId.val, userId) = Null
             THEN Err("Application not found")
        ELSE Ok([applicationId |-> applicationId.val])

\* deleteApplication from model.deleteApplication on
deleteApplicationWrite(loc, apps) ==
    IF ~\E a \in apps : a.id = loc.applicationId
    THEN [result |-> Err(P2025), apps |-> apps]
    ELSE [result |-> Ok([message |-> "Application deleted"]),
          apps |-> modelDeleteApplication(apps, loc.applicationId)]

\* buildOrderBy(sortBy, sortOrder)
buildOrderBy(sortBy, sortOrder) ==
    IF sortBy = SortStatus
    THEN <<[key |-> "status", dir |-> sortOrder], [key |-> "appliedAt", dir |-> Desc]>>
    ELSE <<[key |-> "appliedAt", dir |-> sortOrder], [key |-> "id", dir |-> Desc]>>

\* listApplications up to "await model.listApplications": the failure, or the
\* filters with the arguments of the query
listApplicationsQuery(userId, query) ==
    LET filters == listApplicationsSchema(OrEmptyObject(query))
    IN  IF userId = 0 THEN Err("User context is required")
        ELSE IF ~filters.ok THEN filters
        ELSE Ok([filters |-> filters.val,
                 orderBy |-> buildOrderBy(filters.val.sortBy, filters.val.sortOrder),
                 skip |-> (filters.val.page - 1) * filters.val.pageSize,
                 take |-> filters.val.pageSize])

\* Math.ceil(a / b) of a count and a positive integer
Ceil(a, b) == (a + b - 1) \div b

\* listApplications from "await model.countApplications" on
listApplicationsResult(userId, loc, items, apps) ==
    LET total == modelCountApplications(apps, userId, loc.filters.status)
        totalPages == Max({1, Ceil(total, loc.filters.pageSize)})
    IN  Ok([items |-> items, page |-> loc.filters.page, pageSize |-> loc.filters.pageSize,
            total |-> total, totalPages |-> totalPages])

\* isValidationError(message): of the messages the application routes can
\* fail with, only these two contain none of the substrings it looks for
isValidationError(message) == message \notin {"Application not found", DbDown}

\* controller errorResponse: the status of the error the service threw (404
\* is set on 'Application not found' by the service, 500 is the default)
errorResponse(result) ==
    LET status == IF result.err = "Application not found" THEN 404 ELSE 500
    IN  [status |-> IF status # 404 /\ isValidationError(result.err) THEN 400 ELSE status,
         error |-> result.err]

(***************************************************************************)
(* Inputs and actions of SpecStore: the application routes called by two   *)
(* authenticated users                                                     *)
(***************************************************************************)
\* at most MaxApps applications are created
MaxApps == 2

Dev == Str(<<"d", "e", "v">>)
Lead == Str(<<" ", "l", "e", "a", "d", " ">>)
Acme == Str(<<"a", "c", "m", "e">>)
Initech == Str(<<"i", "n", "i">>)
UrlA == Str(<<"h", ":", "a">>)
UrlB == Str(<<"h", ":", "b">>)
NotAUrl == Str(<<"a">>)

UserIds == {1, 2}

CreateInputs ==
    {[position |-> Dev, company |-> Acme, url |-> UrlA],
     [position |-> Dev, company |-> Acme, url |-> UrlA, status |-> OFFER],
     [position |-> Dev, company |-> Acme, url |-> NotAUrl],
     [company |-> Acme, url |-> UrlA]}

UpdateInputs ==
    {Undefined, << >>,
     [position |-> Lead],
     [company |-> Initech, status |-> INTERVIEWING],
     [position |-> Lead, url |-> UrlB, id |-> Num(9), userId |-> Num(2),
      appliedAt |-> Num(7)],
     [url |-> UrlB],
     [position |-> Blank],
     [status |-> Str(<<"o", "f", "f", "e", "r">>)]}

IdInputs ==
    {Str(<<"1">>), Str(<<"2">>), Str(<<"0">>), Str(<<"x">>), Str(<<"1", ".", "5">>),
     Undefined}

One == Str(<<"1">>)
Two == Str(<<"2">>)
Three == Str(<<"3">>)

\* query strings of GET /applications
ListInputs ==
    {Undefined,
     [page |-> Two, pageSize |-> One],
     [page |-> Three, pageSize |-> One],
     [pageSize |-> Str(<<"1", "0", "0">>)],
     [pageSize |-> Str(<<"1", "0", "1">>)],
     [pageSize |-> Str(<<"0">>)],
     [pageSize |-> Str(<<"x">>)],
     [page |-> Str(<<"1", "0", "0", "0">>), pageSize |-> Two],
     [page |-> Str(<<"1", "0", "0", "1">>)],
     [page |-> Str(<<"1", ".", "5">>)],
     [page |-> Empty],
     [status |-> OFFER, sortBy |-> SortStatus, sortOrder |-> ASC],
     [sortBy |-> Str(<<"i", "d">>)]}

CreateApplication(p, userId, payload) ==
    /\ Free(p)
    /\ nextAppId <= MaxApps
    /\ LET r == createApplication(userId, payload, applications, nextAppId, now)
       IN  /\ applications' = r.apps
           /\ nextAppId' = IF r.result.ok THEN nextAppId + 1 ELSE nextAppId
           /\ last' = [op |-> "createApplication", by |-> p, userId |-> userId,
                       payload |-> payload, result |-> r.result,
                       before |-> applications]
    /\ UNCHANGED <<now, jwtSecret, users, nextId, blacklist, procs, issued, calls,
                   loggedOut, refreshVars>>

UpdateApplicationCall(p, userId, id, payload) ==
    /\ Free(p)
    /\ LET r == updateApplicationLookup(userId, id, payload, applications)
       IN  IF r.ok
           THEN /\ procs' = [procs EXCEPT ![p] =
                       [pc |-> "updateApplication", loc |-> r.val, userId |-> userId,
                        id |-> id, payload |-> payload]]
                /\ UNCHANGED last
           ELSE /\ last' = [op |-> "updateApplication", by |-> p, userId |-> userId,
                            id |-> id, payload |-> payload, result |-> r,
                            written |-> FALSE, before |-> applications]
                /\ UNCHANGED procs
    /\ UNCHANGED <<now, jwtSecret, appVars, users, nextId, blacklist, issued, calls,
                   loggedOut, refreshVars>>

UpdateApplicationReturn(p) ==
    /\ Observed
    /\ procs[p].pc = "updateApplication"
    /\ LET r == updateApplicationWrite(procs[p].loc, applications)
       IN  /\ applications' = r.apps
           /\ last' = [op |-> "updateApplication", by |-> p, userId |-> procs[p].userId,
                       id |-> procs[p].id, payload |-> procs[p].payload,
                       result |-> r.result, written |-> r.result.ok,
                       before |-> applications]
    /\ procs' = [procs EXCEPT ![p] = Idle]
    /\ UNCHANGED <<now, jwtSecret, nextAppId, users, nextId, blacklist, issued, calls,
                   loggedOut, refreshVars>>

DeleteApplicationCall(p, userId, id) ==
    /\ Free(p)
    /\ LET r == deleteApplicationLookup(userId, id, applications)
       IN  IF r.ok
           THEN /\ procs' = [procs EXCEPT ![p] =
                       [pc |-> "deleteApplication", loc |-> r.val, userId |-> userId,
                        id |-> id]]
                /\ UNCHANGED last
           ELSE /\ last' = [op |-> "deleteApplication", by |-> p, userId |-> userId,
                            id |-> id, result |-> r, before |-> applications]
                /\ UNCHANGED procs
    /\ UNCHANGED <<now, jwtSecret, appVars, users, nextId, blacklist, issued, calls,
                   loggedOut, refreshVars>>

DeleteApplicationReturn(p) ==
    /\ Observed
    /\ procs[p].pc = "deleteApplication"
    /\ LET r == deleteApplicationWrite(procs[p].loc, applications)
       IN  /\ applications' = r.apps
           /\ last' = [op |-> "deleteApplication", by |-> p, userId |-> procs[p].userId,
                       id |-> procs[p].id, result |-> r.result,
                       before |-> applications]
    /\ procs' = [procs EXCEPT ![p] = Idle]
    /\ UNCHANGED <<now, jwtSecret, nextAppId, users, nextId, blacklist, issued, calls,
                   loggedOut, refreshVars>>

\* listApplications up to the result of model.listApplications
ListApplicationsCall(p, userId, query) ==
    /\ Free(p)
    /\ \E r \in {listApplicationsQuery(userId, query)} :
           IF r.ok
           THEN /\ \E items \in modelListApplications(applications, userId,
                                                       r.val.filters.status, r.val.orderBy,
                                                       r.val.skip, r.val.take) :
                       procs' = [procs EXCEPT ![p] =
                           [pc |-> "listApplications", loc |-> r.val, userId |-> userId,
                            query |-> query, items |-> items, read |-> applications]]
                /\ UNCHANGED last
           ELSE /\ last' = [op |-> "listApplications", by |-> p, userId |-> userId,
                            query |-> query, result |-> r, before |-> applications]
                /\ UNCHANGED procs
    /\ UNCHANGED <<now, jwtSecret, appVars, users, nextId, blacklist, issued, calls,
                   loggedOut, refreshVars>>

\* listApplications from the result of model.countApplications on
ListApplicationsReturn(p) ==
    /\ Observed
    /\ procs[p].pc = "listApplications"
    /\ last' = [op |-> "listApplications", by |-> p, userId |-> procs[p].userId,
                query |-> procs[p].query, loc |-> procs[p].loc,
                result |-> listApplicationsResult(procs[p].userId, procs[p].loc,
                                                  procs[p].items, applications),
                read |-> procs[p].read, before |-> applications]
    /\ procs' = [procs EXCEPT ![p] = Idle]
    /\ UNCHANGED <<now, jwtSecret, appVars, users, nextId, blacklist, issued, calls,
                   loggedOut, refreshVars>>

\* the state after two accounts have been registered
InitStore ==
    /\ now = 0
    /\ jwtSecret = "server"
    /\ users = {[id |-> 1, email |-> EmailA, password |-> bcryptHash(Password1),
                 name |-> Name1],
                [id |-> 2, email |-> EmailB, password |-> bcryptHash(Password2),
                 name |-> Name1]}
    /\ nextId = 3
    /\ blacklist = << >>
    /\ procs = [p \in Procs |-> Idle]
    /\ last = None
    /\ issued = {}
    /\ loggedOut = {}
    /\ calls = {}
    /\ applications = {}
    /\ nextAppId = 1
    /\ refreshTokens = {}
    /\ rprocs = [p \in Procs |-> Idle]
    /\ nextRaw = 1
    /\ rotations = << >>
    /\ lineage = {}

NextStore ==
    \/ \E p \in Procs, userId \in UserIds, payload \in CreateInputs :
          CreateApplication(p, userId, payload)
    \/ \E p \in Procs, userId \in UserIds, id \in IdInputs, payload \in UpdateInputs :
          UpdateApplicationCall(p, userId, id, payload)
    \/ \E p \in Procs : UpdateApplicationReturn(p)
    \/ \E p \in Procs, userId \in UserIds, id \in IdInputs :
          DeleteApplicationCall(p, userId, id)
    \/ \E p \in Procs : DeleteApplicationReturn(p)
    \/ Observe

SpecStore == InitStore /\ [][NextStore]_vars

\* the routes of two users with GET /applications among them
ListCreateInputs ==
    {[position |-> Dev, company |-> Acme, url |-> UrlA, status |-> OFFER]}

ListUpdateInputs == {[status |-> INTERVIEWING]}

ListIdInputs == {One, Two, Three}

NextList ==
    \/ \E p \in Procs, userId \in UserIds, payload \in ListCreateInputs :
          CreateApplication(p, userId, payload)
    \/ \E p \in Procs, userId \in UserIds, id \in ListIdInputs,
          payload \in ListUpdateInputs :
          UpdateApplicationCall(p, userId, id, payload)
    \/ \E p \in Procs : UpdateApplicationReturn(p)
    \/ \E p \in Procs, userId \in UserIds, id \in ListIdInputs :
          DeleteApplicationCall(p, userId, id)
    \/ \E p \in Procs : DeleteApplicationReturn(p)
    \/ \E p \in Procs, userId \in UserIds, query \in ListInputs :
          ListApplicationsCall(p, userId, query)
    \/ \E p \in Procs : ListApplicationsReturn(p)
    \/ Observe

SpecList == InitStore /\ [][NextList]_vars

(***************************************************************************)
(* SpecRevoke: logout of tokens signed with the secret of the server, of   *)
(* the default lifetime, of a longer one and without exp                   *)
(***************************************************************************)
LongToken ==
    generateToken([userId |-> 1, email |-> EmailA], [expiresIn |-> maxAge + 1],
                  "server", 0).val

NoExpToken ==
    [t |-> "string", ws |-> FALSE,
     jwt |-> [payload |-> [userId |-> 1, email |-> EmailA, iat |-> 0],
              secret |-> "server"]]

RevokeInputs == {UserToken, LongToken, NoExpToken, Garbage}

NextRevoke ==
    \/ Tick
    \/ \E p \in Procs, token \in RevokeInputs : Logout(p, token)
    \/ Observe

SpecRevoke == InitSession /\ [][NextRevoke]_vars

(***************************************************************************)
(* SpecTable: the functions of model.js on the RefreshToken table called   *)
(* one by one for two accounts                                             *)
(***************************************************************************)
TableCreate(userId) ==
    /\ Observed
    /\ nextRaw <= MaxRaw
    /\ refreshTokens' = createRefreshToken(refreshTokens,
                            [tokenHash |-> hashRefreshToken(nextRaw), userId |-> userId,
                             expiresAt |-> now + RefreshTtl * 1000])
    /\ nextRaw' = nextRaw + 1
    /\ last' = [op |-> "createRefreshToken", raw |-> nextRaw, userId |-> userId,
                before |-> refreshTokens]
    /\ UNCHANGED <<now, jwtSecret, appVars, users, nextId, blacklist, procs, issued, calls,
                   loggedOut, rprocs, rotations, lineage>>

\* prisma update throws when no row has the tokenHash
TableRevoke(raw, replacedBy) ==
    /\ Observed
    /\ LET tokenHash == hashRefreshToken(raw)
           found == \E r \in refreshTokens : r.tokenHash = tokenHash
       IN  /\ refreshTokens' = IF found
                               THEN revokeRefreshToken(refreshTokens, tokenHash, replacedBy)
                               ELSE refreshTokens
           /\ last' = [op |-> "revokeRefreshToken", raw |-> raw,
                       replacedBy |-> replacedBy,
                       result |-> IF found THEN Ok(tokenHash) ELSE Err(P2025),
                       before |-> refreshTokens]
    /\ UNCHANGED <<now, jwtSecret, appVars, users, nextId, blacklist, procs, issued, calls,
                   loggedOut, rprocs, nextRaw, rotations, lineage>>

TableRevokeAll(userId) ==
    /\ Observed
    /\ refreshTokens' = revokeAllRefreshTokensForUser(refreshTokens, userId)
    /\ last' = [op |-> "revokeAllRefreshTokensForUser", userId |-> userId,
                before |-> refreshTokens]
    /\ UNCHANGED <<now, jwtSecret, appVars, users, nextId, blacklist, procs, issued, calls,
                   loggedOut, rprocs, nextRaw, rotations, lineage>>

TableCleanup ==
    /\ Observed
    /\ refreshTokens' = cleanupExpiredRefreshTokens(refreshTokens, now)
    /\ last' = [op |-> "cleanupExpiredRefreshTokens", before |-> refreshTokens]
    /\ UNCHANGED <<now, jwtSecret, appVars, users, nextId, blacklist, procs, issued, calls,
                   loggedOut, rprocs, nextRaw, rotations, lineage>>

NextTable ==
    \/ Tick
    \/ \E userId \in UserIds : TableCreate(userId)
    \/ \E raw \in 1..MaxRaw, successor \in 1..MaxRaw :
          TableRevoke(raw, IF successor > raw THEN hashRefreshToken(successor) ELSE Null)
    \/ \E userId \in UserIds : TableRevokeAll(userId)
    \/ TableCleanup
    \/ Observe

SpecTable == InitStore /\ [][NextTable]_vars

(***************************************************************************)
(* Actions of SpecPassword: hashPassword and register called with the      *)
(* passwords of PasswordInputs, one call at a time                         *)
(***************************************************************************)
PasswordInputs ==
    {Undefined, Null, NumberValue, Empty, Password1, Password2, ShortPassword,
     Str(<<"a", "b", "c", "d">>),
     Str(<<"a", "b", "c", "d", "e", "f", "g", "h">>),
     Str(<<"A", "b", "c", "d", "e", "f", "g", "h">>),
     Str(<<"a", "b", "c", "d", "e", "f", "g", "!">>),
     Str(<<"A", "b", "c", "d", "e", "f", "g", "h", "i", "j", "k", "l", "m", "n", "!">>),
     Str(<<"A", "b", "c", "d", "e", "f", "g", "h", "i", "j", "k", "l", "m", "n", "o", "!">>),
     Str(<<"a", "b", "c", "d", "e", "f", "g", "h", "i", "j", "k", "l", "m", "n", "o", "p">>)}

HashPassword(password) ==
    /\ Observed
    /\ last' = [op |-> "hashPassword", password |-> password,
                result |-> hashPassword(password), hashed |-> hashPassword(password).ok,
                before |-> users]
    /\ UNCHANGED <<now, jwtSecret, appVars, users, nextId, blacklist, procs, issued, calls,
                   loggedOut, refreshVars>>

\* one register call from its validation to its return, no other request
\* running meanwhile
RegisterWithPassword(email, password) ==
    /\ Observed
    /\ LET lookup == registerLookup([email |-> email, password |-> password,
                                     name |-> Name1], users)
           r == IF lookup.ok THEN register(lookup.val, users, nextId, jwtSecret, now)
                ELSE [result |-> lookup, users |-> users]
       IN  /\ users' = r.users
           /\ nextId' = IF r.users # users THEN nextId + 1 ELSE nextId
           /\ last' = [op |-> "register", password |-> password, result |-> r.result,
                       hashed |-> lookup.ok /\ hashPassword(lookup.val.validated.password).ok,
                       before |-> users]
    /\ UNCHANGED <<now, jwtSecret, appVars, blacklist, procs, issued, calls, loggedOut,
                   refreshVars>>

NextPassword ==
    \/ \E password \in PasswordInputs : HashPassword(password)
    \/ \E email \in {EmailA, EmailB}, password \in PasswordInputs :
          RegisterWithPassword(email, password)
    \/ Observe

SpecPassword == Init /\ [][NextPassword]_vars

(***************************************************************************)
(* SpecAccess: the auth service and authMiddleware side by side, for one   *)
(* account that has logged in once                                         *)
(***************************************************************************)
\* the tokens a client may present: issued ones, as they are or with
\* whitespace around them, and tokens no handler has issued
AccessTokens ==
    issued \cup {Padded(t) : t \in issued}
           \cup {ForeignSecretToken, NoUserIdToken, UnknownUserToken, Garbage}

AccessHeaders ==
    {Undefined} \cup {Header(<<Bearer, token>>) : token \in AccessTokens}

AccessRegisterInputs ==
    [email : {EmailA, EmailB, NotAnEmail}, password : {Password1}, name : {Name1}]

AccessLoginInputs ==
    [email : {EmailA, EmailB}, password : {Password1, Password2}]

NextAccess ==
    \/ Tick
    \/ \E p \in Procs, data \in AccessRegisterInputs : RegisterCall(p, data)
    \/ \E p \in Procs : RegisterReturn(p)
    \/ \E p \in Procs, data \in AccessLoginInputs : LoginCall(p, data)
    \/ \E p \in Procs : LoginReturn(p)
    \/ \E p \in Procs, token \in AccessTokens : GetCurrentUserCall(p, token)
    \/ \E p \in Procs : GetCurrentUserReturn(p)
    \/ \E p \in Procs, token \in AccessTokens : Logout(p, token)
    \/ \E p \in Procs, authHeader \in AccessHeaders : ApplicationsRequest(p, authHeader)
    \/ \E p \in Procs : ApplicationsLoad(p)
    \/ Observe

SpecAccess == InitSession /\ [][NextAccess]_vars

(***************************************************************************)
(* SpecRegister: register in a process whose signing secret may be         *)
(* missing (config skips validateConfig when NODE_ENV is "test", and       *)
(* generateToken reads process.env.JWT_SECRET at every call)               *)
(***************************************************************************)
InitRegister ==
    /\ now = 0
    /\ jwtSecret \in {"server", "unset"}
    /\ users = {}
    /\ nextId = 1
    /\ blacklist = << >>
    /\ procs = [p \in Procs |-> Idle]
    /\ last = None
    /\ issued = {}
    /\ loggedOut = {}
    /\ calls = {}
    /\ applications = {}
    /\ nextAppId = 1
    /\ refreshTokens = {}
    /\ rprocs = [p \in Procs |-> Idle]
    /\ nextRaw = 1
    /\ rotations = << >>
    /\ lineage = {}

NextRegister ==
    \/ Tick
    \/ \E p \in Procs, data \in RegisterInputs : RegisterCall(p, data)
    \/ \E p \in Procs : RegisterReturn(p)
    \/ Observe

SpecRegister == InitRegister /\ [][NextRegister]_vars

(***************************************************************************)
(* Properties of the auth service (checked under Spec)                     *)
(***************************************************************************)
InvalidToken == Err("Invalid or expired token")

\* C1: a getCurrentUser(T) called for an issued, unexpired token T before any
\* successful logout(T) succeeds; a getCurrentUser(T) called after logout(T)
\* has returned success fails with 'Invalid or expired token', at whatever
\* time it is called and whatever other requests are interleaved.
C1_LogoutRevokes ==
    last.op = "getCurrentUser" =>
        /\ last.at.afterLogout => last.result = InvalidToken
        /\ (last.at.wasIssued /\ ~last.at.afterLogout /\ ~last.at.unverified)
               => last.result.ok

\* a getCurrentUser is refused for a token that is still inside its lifetime
\* and was logged out
C1_Witness ==
    /\ last.op = "getCurrentUser"
    /\ last.at.afterLogout /\ last.at.wasIssued /\ ~last.at.unverified
    /\ last.result = InvalidToken

\* C5: every failing login, whatever made it fail (validation of the fields,
\* no user with the email, wrong password), throws 'Invalid credentials' and
\* is answered 401 {error: 'Invalid credentials'}.
C5_LoginFailuresIdentical ==
    (last.op = "login" /\ last.branch # "ok") =>
        /\ last.result = Err("Invalid credentials")
        /\ last.response = [status |-> 401, error |-> "Invalid credentials"]

\* a login for an email without a row has failed
C5_Witness ==
    /\ last.op = "login" /\ last.branch = "no user"
    /\ last.response.status = 401

C7_RaceLoserGetsConflict ==
    (last.op = "register" /\ last.raced) =>
        /\ ~last.created
        /\ last.result = Err("Registration failed")
        /\ \A production \in BOOLEAN :
               last.response[production] =
                   registerResponse(Err("Registration failed"), production)

\* C8: the token returned by register or login carries the id and the email
\* of the user returned with it, that user is a row of the table and is
\* returned without its password; a successful getCurrentUser returns,
\* without password, the row whose id is the token's userId.
C8_TokenBoundToUser ==
    /\ (last.op \in {"register", "login"} /\ last.result.ok) =>
           LET user == last.result.val.user
               claims == last.result.val.token.jwt.payload
           IN  /\ claims.userId = user.id /\ claims.email = user.email
               /\ "password" \notin DOMAIN user
               /\ \E u \in users : u.id = user.id /\ u.email = user.email
                                              /\ u.name = user.name
    /\ (last.op = "getCurrentUser" /\ last.result.ok) =>
           LET user == last.result.val
           IN  /\ user.id = last.decoded.userId
               /\ "password" \notin DOMAIN user
               /\ \E u \in users : u.id = user.id /\ u.email = user.email
               /\ last.at.wasIssued => user.email = last.decoded.email

\* a login has returned a user and a token
C8_Witness ==
    /\ last.op = "login" /\ last.result.ok
    /\ last.result.val.token.jwt.payload.userId = last.result.val.user.id

C10_LogoutValidatesLikeGetCurrentUser ==
    last.op = "logout" =>
        /\ ~last.wouldGet.ok => ~last.result.ok
        /\ last.changed => last.wouldGet.ok

\* C10 amended: a failing logout(T) fails with the error getCurrentUser(T)
\* would give; a logout(T) that succeeds where getCurrentUser(T) would fail
\* is for a token that is revoked already or whose user has no row; the
\* blacklist changes only when logout succeeds, and then holds T until the
\* token's own expiry.
C10_LogoutValidation ==
    last.op = "logout" =>
        /\ ~last.result.ok => last.wouldGet = last.result
        /\ (last.result.ok /\ ~last.wouldGet.ok) => (last.at.revoked \/ last.at.noUser)
        /\ last.changed => last.result.ok
        /\ last.result.ok =>
               LET token == Trim(last.token)
               IN  /\ token \in DOMAIN blacklist
                   /\ blacklist[token] >= token.jwt.payload.exp * 1000

\* a logout of an already revoked token has succeeded
C10_Witness ==
    /\ last.op = "logout" /\ last.result.ok
    /\ last.at.revoked /\ ~last.wouldGet.ok

(***************************************************************************)
(* Properties of refresh-token rotation (checked under SpecRefresh)        *)
(***************************************************************************)
Row(tokenHash) == CHOOSE r \in refreshTokens : r.tokenHash = tokenHash

HasRow(tokenHash) == \E r \in refreshTokens : r.tokenHash = tokenHash

C11_LogoutNeverPartiallyRevokes ==
    last.op = "http logout" =>
        /\ last.cause \in {"header", "validation"} =>
              /\ ~last.result.ok
              /\ blacklist = last.before.blacklist
              /\ refreshTokens = last.before.refreshTokens
              /\ \A pr \in BOOLEAN : last.response[pr].status = 401
        /\ ~last.result.ok =>
              /\ refreshTokens = last.before.refreshTokens
              /\ ~last.refreshRevoked
              /\ ~last.cleared
              /\ \A pr \in BOOLEAN : last.response[pr].status # 200
        /\ last.cleared =>
              /\ last.result.ok
              /\ HasRefreshCookie(last.cookie)
              /\ \A pr \in BOOLEAN : last.response[pr].status = 200

\* C11 witness: a logout that carries the cookie of a live refresh token
\* fails at the validation of its access token
C11_Witness ==
    /\ last.op = "http logout"
    /\ last.cause = "validation"
    /\ HasRefreshCookie(last.cookie)
    /\ \E r \in refreshTokens :
          r.tokenHash = hashRefreshToken(last.cookie.raw) /\ ~r.revoked

(***************************************************************************)
(* Properties of POST /auth/refresh (checked under SpecRefresh)            *)
(***************************************************************************)
\* C12: every rejected refresh - no cookie, unknown token, expired record,
\* revoked record - is answered with the same 401 'Invalid or expired token'
\* and without a cookie; a successful refresh has revoked the presented
\* record and linked it to the record of the new refresh token, answers 200
\* with an access token of the user the record is bound to, and sets the new
\* refresh token as the cookie.
C12_RefreshOutcomes ==
    last.op = "refresh" =>
        /\ ~last.result.ok =>
              last.response = [status |-> 401, error |-> "Invalid or expired token"]
        /\ ~last.at.live => ~last.result.ok
        /\ last.result.ok =>
              LET old == Row(hashRefreshToken(last.raw))
                  new == hashRefreshToken(last.result.val.refreshToken)
                  claims == verifyToken(last.result.val.token, jwtSecret, now)
              IN  /\ old.revoked
                  /\ old.replacedBy = new
                  /\ HasRow(new)
                  /\ claims # Null
                  /\ claims.userId = old.userId
                  /\ \E u \in users : u.id = old.userId /\ u.email = claims.email
                  /\ last.response.status = 200
                  /\ last.response.token = last.result.val.token
                  /\ last.response.user.id = old.userId
                  /\ last.response.cookie = last.result.val.refreshToken

\* C12 witness: the refresh token presented belongs to a record that is not
\* revoked but has expired, and the refresh is rejected
C12_Witness ==
    /\ last.op = "refresh"
    /\ ~last.result.ok
    /\ last.step = "lookup"
    /\ HasRow(hashRefreshToken(last.raw))
    /\ ~Row(hashRefreshToken(last.raw)).revoked
    /\ Row(hashRefreshToken(last.raw)).expiresAt < now

(***************************************************************************)
(* Properties of tokenBlacklist (checked under SpecBlacklist)              *)
(***************************************************************************)
\* C13: an entry whose expiry is in the past never reports revoked.
\* isBlacklisted answers true only for a token that has an entry whose
\* expiry is not in the past; when the current time is past the expiry of
\* the token's entry it answers false and the entry is gone from the Map
\* afterwards (so every later lookup finds no entry, until the token is added
\* again); no other entry is touched.
C13_StaleEntryNeverRevoked ==
    last.op = "isBlacklisted" =>
        LET had == last.token \in DOMAIN last.before
            stale == had /\ now > last.before[last.token]
        IN  /\ last.revoked <=> (had /\ ~stale)
            /\ stale => last.token \notin DOMAIN blacklist
            /\ \A t \in DOMAIN last.before \ {last.token} :
                  t \in DOMAIN blacklist /\ blacklist[t] = last.before[t]

\* C13 witness: a lookup of a token whose entry has expired
C13_Witness ==
    /\ last.op = "isBlacklisted"
    /\ last.token \in DOMAIN last.before
    /\ now > last.before[last.token]
    /\ ~last.revoked

(***************************************************************************)
(* Properties of generateToken and verifyToken (checked under SpecToken)   *)
(***************************************************************************)
\* C14 as claimed: verifyToken returns the claims of a valid token, a
\* failure value for an expired token, a different failure value for a
\* malformed or signature-mismatched token, none of them by an exception,
\* and propagates any other decoding error.
C14_ThreeOutcomes ==
    last.op = "verifyToken" =>
        /\ last.kind = "valid" => last.result = last.token.jwt.payload
        /\ last.kind \in {"expired", "malformed", "mismatch"} =>
              "thrown" \notin DOMAIN last.result
        /\ last.kind = "expired" =>
              \A t \in VerifyInputs :
                  TokenKind(t) \in {"malformed", "mismatch"} =>
                      verifyToken(t, jwtSecret, now) # last.result
        /\ last.kind = "not yet valid" => "thrown" \in DOMAIN last.result

\* C14 amended: verifyToken returns the claims of a valid token and the one
\* failure value null for an expired, a malformed and a signature-mismatched
\* token alike; it throws for a value that is no non-empty string and
\* propagates any other decoding error.
C14_VerifyOutcomes ==
    last.op = "verifyToken" =>
        /\ last.kind = "valid" => last.result = last.token.jwt.payload
        /\ last.kind \in {"expired", "malformed", "mismatch"} => last.result = Null
        /\ last.kind = "no string" =>
              last.result = Thrown("Token must be a non-empty string")
        /\ last.kind = "not yet valid" => last.result = Thrown("NotBeforeError")

\* C14 witness: an issued token is verified after it has expired
C14_Witness ==
    /\ last.op = "verifyToken"
    /\ last.kind = "expired"
    /\ \E c \in calls : c.token = last.token
    /\ last.result = Null

\* the ttl a generateToken call asked for (the default when it named none)
RequestedTtl(c) ==
    IF "expiresIn" \in DOMAIN c.options THEN c.options.expiresIn ELSE maxAge

\* C15 as claimed: a token issued for claims with a ttl verifies to the issued
\* claims at every instant strictly inside the ttl window after its issue,
\* to the failure value (no fault) at every instant from the end of the
\* window on, and to the failure value under a different secret.
C15_RoundTripInWindow ==
    last.op = "verifyToken" =>
        /\ \A c \in calls :
              (c.token = last.token /\ last.kind # "mismatch") =>
                  IF now < c.at + RequestedTtl(c) * 1000
                  THEN /\ "thrown" \notin DOMAIN last.result
                       /\ last.result # Null
                       /\ \A k \in DOMAIN c.payload : last.result[k] = c.payload[k]
                  ELSE last.result = Null
        /\ last.kind = "mismatch" => last.result = Null

\* C15 amended: the window is counted in whole seconds of the clock from the
\* second of issue, and a ttl of 0 means the default lifetime: the token
\* verifies to the issued claims with iat and exp while
\* floor(now/1000) < floor(issuedAt/1000) + ttl and to null (no fault) from
\* then on; under a different secret it verifies to null.
C15_RoundTripInSeconds ==
    last.op = "verifyToken" =>
        /\ \A c \in calls :
              (c.token = last.token /\ last.kind # "mismatch") =>
                  LET ttl == IF RequestedTtl(c) = 0 THEN maxAge ELSE RequestedTtl(c)
                      iat == c.at \div 1000
                  IN  IF now \div 1000 < iat + ttl
                      THEN last.result = c.payload @@ [iat |-> iat, exp |-> iat + ttl]
                      ELSE last.result = Null
        /\ last.kind = "mismatch" => last.result = Null

\* C15 witness: a token issued in the middle of a second with a ttl of one
\* second is verified less than one second later and has expired
C15_Witness ==
    /\ last.op = "verifyToken"
    /\ last.result = Null
    /\ \E c \in calls :
          /\ c.token = last.token
          /\ c.options = [expiresIn |-> 1]
          /\ c.at % 1000 # 0
          /\ now < c.at + 1000

\* C16: generateToken signs nothing without a signing secret, failing with
\* 'JWT_SECRET is not configured' whatever the payload is, and nothing for a
\* payload that is null, undefined, an empty object, an array or no object,
\* failing with one of its two payload errors; a token is produced only (and,
\* with a secret, always) for a non-empty object that is no array.
C16_GenerateTokenRejects ==
    last.op = "generateToken" =>
        LET payload == last.payload
            object == "t" \notin DOMAIN payload
            good == object /\ DOMAIN payload # {}
        IN  /\ jwtSecret = "unset" => last.result = Err("JWT_SECRET is not configured")
            /\ (jwtSecret # "unset" /\ ~good) =>
                  /\ ~last.result.ok
                  /\ last.result.err \in {"Payload cannot be empty, null or undefined",
                                          "Payload must be a non-array object"}
            /\ last.result.ok <=> (jwtSecret # "unset" /\ good)
            /\ last.result.ok =>
                  /\ IsJwt(last.result.val)
                  /\ last.result.val.jwt.secret = jwtSecret
                  /\ \A k \in DOMAIN payload : last.result.val.jwt.payload[k] = payload[k]

\* C16 witness: no secret is configured and the payload is null as well
C16_Witness ==
    /\ last.op = "generateToken"
    /\ jwtSecret = "unset"
    /\ last.payload = Null
    /\ ~last.result.ok

\* C17: any two tokens issued for identical claims at different instants
\* are distinct values.
C17_TokensDistinctPerIssue ==
    \A a \in calls, b \in calls :
        (a.payload = b.payload /\ a.at # b.at) => a.token # b.token

(***************************************************************************)
(* Properties of the password policy (checked under SpecPassword)          *)
(***************************************************************************)
PasswordRules ==
    <<"Password is required", "Password must be a string",
      "Password must be at least 8 characters long",
      "Password must be at most 15 characters long",
      "Password must contain at least one capital letter",
      "Password must contain at least one symbol">>

\* rule i of the policy is violated by v; null and the empty string count as
\* missing when lenient
ViolatesRule(v, i, lenient) ==
    CASE i = 1 -> \/ v = Undefined
                  \/ lenient /\ (v = Null \/ (IsString(v) /\ Len(v.chars) = 0))
      [] i = 2 -> ~IsString(v)
      [] i = 3 -> IsString(v) /\ Len(v.chars) < 8
      [] i = 4 -> IsString(v) /\ Len(v.chars) > 15
      [] i = 5 -> IsString(v) /\ ~\E k \in 1..Len(v.chars) : v.chars[k] \in UpperCase
      [] i = 6 -> IsString(v) /\ ~\E k \in 1..Len(v.chars) : v.chars[k] \in Symbols

C19_DependencyFaultIsServerError ==
    /\ last.op = "login" /\ "branch" \in DOMAIN last /\ last.branch = "fault" =>
          last.response.status >= 500
    /\ last.op = "getCurrentUser" /\ "branch" \in DOMAIN last /\ last.branch = "fault" =>
          \A production \in BOOLEAN : last.response[production].status >= 500

\* the Authorization header is "<scheme> <token>" with the scheme bearer, in
\* any letter case, and a token that is not blank
IsBearerHeader(h) ==
    /\ h # Undefined
    /\ Len(h.parts) = 2
    /\ ToLowerCase(h.parts[1]) = bearer
    /\ IsString(h.parts[2])
    /\ Length(Trim(h.parts[2])) > 0

\* C20: a request to a route under /applications reaches the handler only
\* when its Authorization header is a bearer header whose token is not
\* blacklisted, verifies, carries a userId and belongs to an existing user,
\* and then req.user is that user; whenever these hold and the database
\* answers, the handler is reached; in every other case the answer is 401.
C20_ApplicationsRequireAuthentication ==
    last.op = "applications" =>
        LET c == last.at.checks
            h == last.at.header
            authentic == /\ IsBearerHeader(h)
                         /\ ~c.blank /\ ~c.revoked /\ ~c.unverified
                         /\ ~c.noUserId /\ ~c.noUser
        IN  /\ last.next =>
                  /\ authentic
                  /\ \E u \in users :
                        /\ u.id = h.parts[2].jwt.payload.userId
                        /\ last.reqUser = [id |-> u.id, email |-> u.email,
                                           name |-> u.name]
            /\ ~last.next => last.response.status = 401 /\ last.reqUser = Null
            /\ authentic /\ "fault" \notin DOMAIN last => last.next

\* C20 witness: a request carrying a token that has been logged out, in a
\* well-formed bearer header, is answered 401 without reaching the handler
C20_Witness ==
    /\ last.op = "applications"
    /\ IsBearerHeader(last.at.header)
    /\ last.at.checks.revoked
    /\ ~last.at.checks.unverified
    /\ ~last.next
    /\ last.response.status = 401

(***************************************************************************)
(* Properties of the application store (checked under SpecStore)           *)
(***************************************************************************)
\* C21: an update leaves the id, url, owner and appliedAt of the updated
\* application as they were, whatever the payload carries, changes of it
\* only the position, company and status the payload names, and leaves every
\* other application unchanged; a failed update changes nothing.
C21_UpdateChangesOnlyEditableFields ==
    last.op = "updateApplication" =>
        IF ~last.written THEN applications = last.before
        ELSE LET id == last.result.val.id
                 old == CHOOSE a \in last.before : a.id = id
             IN  /\ \E a \in last.before : a.id = id
                 /\ \A a \in last.before : a.id # id => a \in applications
                 /\ Cardinality(applications) = Cardinality(last.before)
                 /\ \E new \in applications :
                       /\ new.id = id
                       /\ new.url = old.url
                       /\ new.userId = old.userId
                       /\ new.appliedAt = old.appliedAt
                       /\ \A k \in {"position", "company", "status"} :
                             new[k] # old[k] => k \in DOMAIN last.payload

\* C21 witness: an update whose payload also carries url, id, userId and
\* appliedAt is written while another application exists
C21_Witness ==
    /\ last.op = "updateApplication"
    /\ last.written
    /\ last.payload # Undefined
    /\ {"url", "id", "userId", "appliedAt"} \subseteq DOMAIN last.payload
    /\ Cardinality(applications) = 2
    /\ last.result.val.position = Str(<<"l", "e", "a", "d">>)

Stale(t) == t \in DOMAIN blacklist /\ now > blacklist[t]

\* C23: an expired entry does not remain in the revocation store
\* indefinitely: whenever the entry of a token is stale, it is eventually
\* removed (or renewed by a new revocation of that token).
C23_ExpiredEntriesDoNotRemain ==
    \A t \in BlacklistTokens : Stale(t) ~> ~Stale(t)

C25_NoCrossTokenInterference ==
    last.op \in {"addToBlacklist", "isBlacklisted"} =>
        /\ \A B \in BlacklistTokens \ {last.token} :
              /\ B \in DOMAIN last.before /\ now <= last.before[B] =>
                    /\ B \in DOMAIN blacklist
                    /\ blacklist[B] = last.before[B]
                    /\ isBlacklisted(blacklist, B, now).revoked
              /\ B \notin DOMAIN last.before => B \notin DOMAIN blacklist
        /\ last.op = "addToBlacklist" =>
              /\ last.token \in DOMAIN blacklist
              /\ blacklist[last.token] = now + last.expiresIn * 1000
              /\ isBlacklisted(blacklist, last.token, now).revoked

\* C25 witness: a token that is already present is revoked again with
\* another expiry while another token is revoked and has not expired
C25_Witness ==
    /\ last.op = "addToBlacklist"
    /\ last.token \in DOMAIN last.before
    /\ blacklist[last.token] # last.before[last.token]
    /\ \E B \in DOMAIN last.before \ {last.token} : now <= last.before[B]

(***************************************************************************)
(* Properties of the RefreshToken table                                    *)
(***************************************************************************)
\* C26: the rotation chain is append-only: in every step, a record that is
\* revoked stays revoked, and a record whose replacedBy names a successor
\* keeps that replacedBy.
C26_ChainAppendOnly ==
    [][\A r \in refreshTokens : \A q \in refreshTokens' :
          q.tokenHash = r.tokenHash =>
              /\ r.revoked => q.revoked
              /\ r.replacedBy # Null => q.replacedBy = r.replacedBy]_vars

\* the raw refresh tokens a refresh would accept on table rt now
Accepted(rt) ==
    {raw \in 1..MaxRaw :
        RefreshRecordValid(findRefreshToken(rt, users, hashRefreshToken(raw)), now)}

\* C27: cleanupExpiredRefreshTokens deletes exactly the records that are
\* expired or revoked and leaves the others as they are; in every state the
\* raw tokens a refresh accepts are the same on the table as it is and on
\* the table as cleanup would leave it.
C27_CleanupIsAdvisory ==
    /\ Accepted(refreshTokens) = Accepted(cleanupExpiredRefreshTokens(refreshTokens, now))
    /\ last.op = "cleanupExpiredRefreshTokens" =>
          /\ refreshTokens \subseteq last.before
          /\ \A r \in last.before :
                r \in refreshTokens <=> (~r.revoked /\ r.expiresAt >= now)
          /\ Accepted(refreshTokens) = Accepted(last.before)

\* C27 witness: cleanup deletes a record that has expired without being
\* revoked and keeps one that is still accepted
C27_Witness ==
    /\ last.op = "cleanupExpiredRefreshTokens"
    /\ \E r \in last.before \ refreshTokens : ~r.revoked
    /\ Accepted(refreshTokens) # {}

\* C28: revokeAllRefreshTokensForUser(u) sets revoked on every record of u
\* that was not revoked and changes nothing else: the records of other
\* users and the revoked records of u are as before, no record is added or
\* deleted, and every replacedBy is as before.
C28_RevokeAllFrame ==
    last.op = "revokeAllRefreshTokensForUser" =>
        /\ Cardinality(refreshTokens) = Cardinality(last.before)
        /\ \A r \in last.before :
              IF r.userId = last.userId /\ ~r.revoked
              THEN [r EXCEPT !.revoked = TRUE] \in refreshTokens
              ELSE r \in refreshTokens

\* C28 witness: the call revokes a record of the user while a record of
\* another user and a revoked record of the user with a successor exist
C28_Witness ==
    /\ last.op = "revokeAllRefreshTokensForUser"
    /\ \E r \in last.before : r.userId = last.userId /\ ~r.revoked
    /\ \E r \in last.before : r.userId # last.userId /\ ~r.revoked
    /\ \E r \in last.before : r.userId = last.userId /\ r.replacedBy # Null

(***************************************************************************)
(* Order of the steps of login and register (checked under Spec)           *)
(***************************************************************************)
\* C29: every login whose input passed validation has compared the
\* password before it returns: against the stored hash of the account, or
\* against dummyHash when no account has the email, and in that case it
\* fails.
C29_LoginAlwaysCompares ==
    last.op = "login" /\ last.branch # "validation" =>
        /\ last.compared.performed
        /\ last.branch = "no user" =>
              /\ last.compared.hash = dummyHash
              /\ ~last.result.ok
        /\ last.branch # "no user" =>
              /\ \E u \in users : last.compared.hash = u.password
              /\ last.result.ok <=> last.compared.valid

\* C29 witness: a login for an email that no account has fails after the
\* comparison against dummyHash
C29_Witness ==
    /\ last.op = "login"
    /\ last.branch = "no user"
    /\ last.compared.performed
    /\ last.compared.hash = dummyHash

\* C30: every register whose input passed validation has computed the
\* password hash before it returns, and the rejection of an email that is
\* already registered is raised after that hash has been computed.
C30_RegisterAlwaysHashes ==
    last.op = "register" /\ "validated" \in DOMAIN last /\ last.validated =>
        /\ last.hash.performed
        /\ last.hash.result.ok
        /\ last.at.existed => last.result = Err("Registration failed")

\* C30 witness: a register for an email that is already registered is
\* rejected after the hash
C30_Witness ==
    /\ last.op = "register"
    /\ "validated" \in DOMAIN last
    /\ last.validated
    /\ last.at.existed
    /\ last.hash.performed
    /\ last.result = Err("Registration failed")

\* the order in which the code of register and of login makes its calls
RegisterOrder ==
    <<"validate", "findUserByEmail", "hashPassword", "createUser", "generateToken">>

LoginOrder ==
    <<"validate", "findUserByEmailWithPassword", "comparePassword", "generateToken">>

\* the stage of a step in the sequence validate, hash/verify, persist/lookup,
\* issue token
StepRank(step) ==
    CASE step = "validate" -> 1
      [] step \in {"hashPassword", "comparePassword"} -> 2
      [] step \in {"findUserByEmail", "findUserByEmailWithPassword", "createUser"} -> 3
      [] step = "generateToken" -> 4

\* the input of the request that completed last failed validation
FailedValidation ==
    IF last.op = "register" THEN ~last.validated ELSE last.branch = "validation"

\* C31 (as stated): within one register or login request the steps
\* run in the sequence validate, then hash/verify, then persist/lookup, then
\* issue token; nothing but validation runs for input that fails validation,
\* and a token is issued only after all earlier steps have succeeded.
C31_StrictSequence ==
    last.op \in {"register", "login"} /\ "steps" \in DOMAIN last =>
        /\ \A i \in 1..Len(last.steps), j \in 1..Len(last.steps) :
              i < j => StepRank(last.steps[i]) < StepRank(last.steps[j])
        /\ FailedValidation => last.steps = <<"validate">>
        /\ last.result.ok => last.steps[Len(last.steps)] = "generateToken"

\* C31: within one register or login request the steps run in the
\* sequence validate, then lookup, then hash (register) or compare (login),
\* then for register the insert, then issue token, each step starting only
\* after the one before it has succeeded; nothing but validation runs for
\* input that fails validation, and the token is issued exactly when every
\* earlier step has succeeded.
C31_RequestSequence ==
    last.op \in {"register", "login"} /\ "steps" \in DOMAIN last =>
        LET order == IF last.op = "register" THEN RegisterOrder ELSE LoginOrder
            steps == last.steps
        IN  /\ Len(steps) \in 1..Len(order)
            /\ steps = SubSeq(order, 1, Len(steps))
            /\ FailedValidation <=> steps = <<"validate">>
            /\ last.result.ok <=> steps = order
            /\ (last.op = "register" /\ last.created) =>
                  \E i \in 1..Len(steps) : steps[i] = "createUser"

\* C31 witness: a register that went through every step and returned a
\* token, the lookup having come before the hash
C31_Witness ==
    /\ last.op = "register"
    /\ "steps" \in DOMAIN last
    /\ last.result.ok
    /\ last.created
    /\ last.steps = RegisterOrder

(***************************************************************************)
(* Properties of the auth service next to authMiddleware (checked under    *)
(* SpecAccess)                                                             *)
(***************************************************************************)
\* C32: the revocation store gains an entry for a token T, or a
\* new expiry for it, only as the effect of a successful logout(T): register,
\* login, getCurrentUser, authMiddleware and every failing logout add no
\* entry, and the passing of time changes no stored state.
C32_RevokedOnlyByLogout ==
    [][/\ \A t \in DOMAIN blacklist' :
             (t \notin DOMAIN blacklist \/ blacklist'[t] # blacklist[t]) =>
                 /\ last'.op = "logout"
                 /\ last'.result.ok
                 /\ Trim(last'.token) = t
       /\ now' # now => UNCHANGED <<blacklist, users, refreshTokens, applications>>]_vars

\* C32 witness: after time has passed a logout has succeeded and its token
\* is in the store, while another token that was issued is not
C32_Witness ==
    /\ last.op = "logout"
    /\ last.result.ok
    /\ last.changed
    /\ Trim(last.token) \in DOMAIN blacklist
    /\ now > 0
    /\ Cardinality(issued) > 1
    /\ \E t \in issued : t \notin DOMAIN blacklist

\* what authMiddleware, run to its end in the current state, answers to the
\* header "Bearer <token>": req.user, or the rejection
MiddlewareAdmits(token) ==
    LET r == authMiddleware(Header(<<Bearer, token>>), blacklist, jwtSecret, now)
    IN  IF r.outcome.ok THEN authMiddlewareLoad(r.outcome.val, users) ELSE r.outcome

\* what getCurrentUser(token), run to its end in the current state, returns
ServiceReturns(token) ==
    LET r == getCurrentUser(token, blacklist, jwtSecret, now)
    IN  IF r.outcome.ok THEN getCurrentUserLoad(r.outcome.val, users) ELSE r.outcome

\* C34: authMiddleware and getCurrentUser accept the same tokens: in
\* every reachable state and for every token string, authMiddleware admits
\* the request if and only if getCurrentUser(token) would succeed, and the
\* user attached to req.user equals the user getCurrentUser returns.
C34_SameTokensAccepted ==
    \A token \in AccessTokens :
        /\ MiddlewareAdmits(token).ok <=> ServiceReturns(token).ok
        /\ MiddlewareAdmits(token).ok => MiddlewareAdmits(token).val = ServiceReturns(token).val

\* C35: once logout(T) has returned success, no protected operation
\* authenticated with T takes effect afterwards: whatever the interleaving of
\* the logout with requests that are past the blacklist check and await the
\* user lookup, getCurrentUser(T) returns no user and no /applications
\* handler runs for T after the logout has completed.
C35_NoEffectAfterLogout ==
    /\ (last.op = "getCurrentUser" /\ last.result.ok) =>
          ~\E t \in loggedOut : t.jwt.payload = last.decoded
    /\ (last.op = "applications" /\ last.next) =>
          Trim(last.at.header.parts[2]) \notin loggedOut

(***************************************************************************)
(* Properties of the application routes of two users (checked under        *)
(* SpecList)                                                               *)
(***************************************************************************)
\* the request that completed last named an id and no application with that
\* id was owned by its user
NotOwned ==
    /\ last.userId # 0
    /\ idSchema(last.id).ok
    /\ ~\E a \in last.before : a.id = idSchema(last.id).val /\ a.userId = last.userId

C37_Pagination ==
    last.op = "listApplications" =>
        LET query == OrEmptyObject(last.query)
            rawPage == Field(query, "page")
            rawSize == Field(query, "pageSize")
            answer == last.result.val
            matching == {a \in last.read :
                            /\ a.userId = last.userId
                            /\ last.loc.filters.status \in {Undefined, a.status}}
            rest == IF Cardinality(matching) > last.loc.skip
                    THEN Cardinality(matching) - last.loc.skip ELSE 0
        IN  /\ last.result.ok =>
                  /\ answer.page \in 1..1000
                  /\ answer.pageSize \in 1..100
                  /\ rawPage = Undefined => answer.page = 1
                  /\ rawSize = Undefined => answer.pageSize = 20
                  /\ rawPage # Undefined => Number(rawPage) = Num(answer.page)
                  /\ rawSize # Undefined => Number(rawSize) = Num(answer.pageSize)
                  /\ last.loc.skip = (answer.page - 1) * answer.pageSize
                  /\ last.loc.take = answer.pageSize
                  /\ Len(answer.items) <= answer.pageSize
                  /\ Len(answer.items) = IF rest < answer.pageSize THEN rest
                                         ELSE answer.pageSize
                  /\ (last.loc.filters.sortBy = SortDate /\ Len(answer.items) > 0) =>
                        Cardinality({a \in matching : a.id > answer.items[1].id})
                            = last.loc.skip
                  /\ answer.totalPages >= 1
                  /\ answer.totalPages * answer.pageSize >= answer.total
                  /\ answer.totalPages > 1 =>
                        (answer.totalPages - 1) * answer.pageSize < answer.total
            /\ (/\ rawSize # Undefined
                /\ Number(rawSize) # NaN
                /\ Number(rawSize).n > 100) => ~last.result.ok

\* C37 witness: the second page of size 1 of a user who owns two
\* applications: one row is skipped, one is returned, and there are two pages
C37_Witness ==
    /\ last.op = "listApplications"
    /\ last.result.ok
    /\ last.result.val.page = 2
    /\ last.result.val.pageSize = 1
    /\ last.loc.skip = 1
    /\ Len(last.result.val.items) = 1
    /\ last.result.val.total = 2
    /\ last.result.val.totalPages = 2

(***************************************************************************)
(* Properties of register without a signing secret (checked under          *)
(* SpecRegister)                                                           *)
(***************************************************************************)
\* C33: register is all-or-nothing with respect to the user store:
\* whenever register fails, for whatever reason (validation, duplicate email,
\* hashing, token issuance with no signing secret configured), that call has
\* created no user record.
C33_RegisterAllOrNothing ==
    last.op = "register" /\ ~last.result.ok => ~last.created

====
